---- MODULE Spec2Model ----
(* LexInvo canonicalization core: the canonical invoice, the patch/audit    *)
(* store (btstore.apply_patch), the four rule phases of rules_engine and    *)
(* the orchestration of pipeline.run_pipeline.                              *)
(*                                                                          *)
(* Amounts are integers counted in cents.  A field value is a record        *)
(* [k, n, t]: k is the Python shape of the value, n its amount in cents (or *)
(* a day number for dates), t its words for free text.  Where the           *)
(* characters of a text matter (normalize.parse_decimal), the text is the   *)
(* sequence of its characters.                                              *)
EXTENDS Integers, Sequences, FiniteSets, TLC

VARIABLES
  invoice,   \* the CanonicalInvoice: header, lines, totals, raw, patches (the patch log)
  pc,        \* position of the caller: "enrich", "call", "apply", "done", "error", "store"
  step,      \* index of the current phase call in the orchestrator's sequence
  pending,   \* patches returned by the current phase and not yet applied
  produced,  \* the patch list the current phase returned
  snap,      \* the invoice the current phase was called on
  prev,      \* the invoice before the latest apply_patch call
  last,      \* the patch of the latest apply_patch call (<<>> before the first)
  origin,    \* for each entry of the patch log, the phase call that produced it
  run,       \* number of the run of the phase sequence
  calls,     \* number of apply_patch calls made by a direct caller of the store
  trace,     \* the phase functions called so far, in call order
  arg,       \* the argument of a helper function called on its own
  result     \* what that call returned (<<>> before the call)

vars ==
  <<invoice, pc, step, pending, produced, snap, prev, last, origin, run, calls, trace, arg, result>>

(***************************************************************************)
(* Bounds of the model                                                     *)
(***************************************************************************)
MaxLines == 2
MaxRuns == 2
MaxCalls == 2
MaxLen == 4

(***************************************************************************)
(* Values (models.BTValue.value)                                           *)
(***************************************************************************)
None == [k |-> "none", n |-> 0, t |-> <<>>]
EmptyStr == [k |-> "empty", n |-> 0, t |-> <<>>]
Float(c) == [k |-> "float", n |-> c, t |-> <<>>]
Dec2(c) == [k |-> "dec2", n |-> c, t |-> <<>>]
DecRaw(c) == [k |-> "decraw", n |-> c, t |-> <<>>]
Text(ws) == [k |-> "text", n |-> 0, t |-> ws]

\* the string of the given words: the empty string when there is no word
TextOf(ws) == IF ws = <<>> THEN EmptyStr ELSE Text(ws)

\* Python truthiness of a value: None, "" and the number 0 are false.
Truthy(v) == ~(v.k \in {"none", "empty"} \/ (v.k = "float" /\ v.n = 0))

\* loader: value not in (None, "")
IsEmpty(v) == v.k \in {"none", "empty"}

(***************************************************************************)
(* Words of free text: a text is a sequence of words [w, n]; w is the      *)
(* word (or the lexical class of a number-bearing phrase), n its number.   *)
(***************************************************************************)
W(w) == [w |-> w, n |-> 0]
Word(w) == Text(<<W(w)>>)

(***************************************************************************)
(* The field registry (config/bt_registry.json, an input of load_azure):   *)
(* the codes of each group.                                                *)
(***************************************************************************)
HeaderCodes ==
  {"BT-2", "BT-5", "BT-9", "BT-20", "BT-31", "BT-38", "BT-39", "BT-40",
   "BT-53", "BT-54", "BT-55", "BT-72", "BT-81"}

TotalCodes ==
  {"BT-92", "BT-93", "BT-94", "BT-97", "BT-98", "BT-99", "BT-100", "BT-102",
   "BT-103", "BT-104", "BT-106", "BT-107", "BT-108", "BT-109", "BT-110",
   "BT-112", "BT-113", "BT-115", "BT-116"}

LineCodes ==
  {"BT-126", "BT-129", "BT-130", "BT-131", "BT-138", "BT-146", "BT-147",
   "BT-148", "BT-151", "BT-152"}

\* A code no registry of the model holds (an enrichment step may name it).
UnknownCode == "BT-999"

(***************************************************************************)
(* models.BTValue, btstore.empty_btvalue, models.Patch                     *)
(***************************************************************************)
NoEvidence == "none"

empty_btvalue(bt) ==
  [bt |-> bt, value |-> None, raw_value |-> None, status |-> "missing",
   source |-> "azure", confidence |-> 0, derivation |-> "", evidence |-> NoEvidence,
   rule_id |-> ""]

Patch(scope, bt, new_value, line_id, status, source, derivation, rule_id, evidence) ==
  [scope |-> scope, bt |-> bt, new_value |-> new_value, line_id |-> line_id,
   status |-> status, source |-> source, derivation |-> derivation,
   rule_id |-> rule_id, evidence |-> evidence]

\* line_id of a patch that names no line (Python None)
NoLine == 0

(***************************************************************************)
(* btstore.apply_patch                                                     *)
(***************************************************************************)
\* index of the first line whose line_id is the patch's, 0 when there is none
RECURSIVE FirstLine(_, _, _)
FirstLine(lines, line_id, i) ==
  IF i > Len(lines) THEN 0
  ELSE IF lines[i].line_id = line_id THEN i
  ELSE FirstLine(lines, line_id, i + 1)

\* record is not None
Resolves(inv, patch) ==
  IF patch.scope = "header" THEN patch.bt \in DOMAIN inv.header
  ELSE IF patch.scope = "totals" THEN patch.bt \in DOMAIN inv.totals
  ELSE LET i == FirstLine(inv.lines, patch.line_id, 1)
       IN i # 0 /\ patch.bt \in DOMAIN inv.lines[i].bt

TargetRecord(inv, patch) ==
  IF patch.scope = "header" THEN inv.header[patch.bt]
  ELSE IF patch.scope = "totals" THEN inv.totals[patch.bt]
  ELSE inv.lines[FirstLine(inv.lines, patch.line_id, 1)].bt[patch.bt]

\* a store that keeps the evidence of a record when the patch brings none
OverwriteKeepingEvidence(record, patch) ==
  [record EXCEPT !.value = patch.new_value, !.status = patch.status,
                 !.source = patch.source, !.derivation = patch.derivation,
                 !.rule_id = patch.rule_id,
                 !.evidence = IF patch.evidence = NoEvidence THEN @ ELSE patch.evidence]

Overwrite(record, patch) ==
  [record EXCEPT !.value = patch.new_value, !.status = patch.status,
                 !.source = patch.source, !.derivation = patch.derivation,
                 !.rule_id = patch.rule_id, !.evidence = patch.evidence]

\* a store that logs a value only when it changes it
LogEntryOfChange(old_value, patch) ==
  [bt |-> patch.bt, scope |-> patch.scope, line_id |-> patch.line_id,
   old_value |-> IF old_value = patch.new_value THEN None ELSE old_value,
   new_value |-> patch.new_value, status |-> patch.status,
   derivation |-> patch.derivation, rule_id |-> patch.rule_id]

LogEntry(old_value, patch) ==
  [bt |-> patch.bt, scope |-> patch.scope, line_id |-> patch.line_id,
   old_value |-> old_value, new_value |-> patch.new_value, status |-> patch.status,
   derivation |-> patch.derivation, rule_id |-> patch.rule_id]

\* a store that logs every patch it is given, applied or not
apply_patch_logging_all(inv, patch) ==
  IF ~Resolves(inv, patch)
    THEN [inv EXCEPT !.patches = Append(@, LogEntry(None, patch))]
  ELSE LET record == TargetRecord(inv, patch)
           entry == LogEntry(record.value, patch)
           written ==
             IF patch.scope = "header"
               THEN [inv EXCEPT !.header[patch.bt] = Overwrite(record, patch)]
             ELSE IF patch.scope = "totals"
               THEN [inv EXCEPT !.totals[patch.bt] = Overwrite(record, patch)]
             ELSE [inv EXCEPT !.lines[FirstLine(inv.lines, patch.line_id, 1)].bt[patch.bt] =
                                 Overwrite(record, patch)]
       IN [written EXCEPT !.patches = Append(inv.patches, entry)]

apply_patch(inv, patch) ==
  IF ~Resolves(inv, patch) THEN inv
  ELSE LET record == TargetRecord(inv, patch)
           entry == LogEntry(record.value, patch)
           written ==
             IF patch.scope = "header"
               THEN [inv EXCEPT !.header[patch.bt] = Overwrite(record, patch)]
             ELSE IF patch.scope = "totals"
               THEN [inv EXCEPT !.totals[patch.bt] = Overwrite(record, patch)]
             ELSE [inv EXCEPT !.lines[FirstLine(inv.lines, patch.line_id, 1)].bt[patch.bt] =
                                 Overwrite(record, patch)]
       IN [written EXCEPT !.patches = Append(inv.patches, entry)]

\* for patch in patches: apply_patch(invoice, patch)
RECURSIVE ApplyAll(_, _)
ApplyAll(inv, patches) ==
  IF patches = <<>> THEN inv ELSE ApplyAll(apply_patch(inv, Head(patches)), Tail(patches))

(***************************************************************************)
(* Numbers.  Optional[float] is [ok, n]: n counts cents (hundredths).      *)
(***************************************************************************)
Some(n) == [ok |-> TRUE, n |-> n]
Nothing == [ok |-> FALSE, n |-> 0]

\* Python "x or 0.0"
Or0(x) == IF x.ok THEN x.n ELSE 0

Abs(x) == IF x < 0 THEN -x ELSE x

\* round(a / b, 0) for b > 0, halves away from zero
RoundDivPos(a, b) == IF 2 * (a % b) >= b THEN (a \div b) + 1 ELSE a \div b

RoundDiv(a, b) == IF a >= 0 THEN RoundDivPos(a, b) ELSE -RoundDivPos(-a, b)

\* normalize.parse_decimal: text with no digit, a date and the empty values give None
parse_decimal(v) ==
  IF v.k \in {"float", "dec2", "decraw"} THEN Some(v.n)
  ELSE IF v.k \in {"plz"} THEN Some(v.n * 100)
  ELSE Nothing

\* parse_decimal(record.value) if record and record.value else None
ParseIfSet(scope, bt) ==
  IF bt \in DOMAIN scope /\ Truthy(scope[bt].value) THEN parse_decimal(scope[bt].value)
  ELSE Nothing

\* parse_decimal(record.value) if record else None
ParseIfHas(scope, bt) ==
  IF bt \in DOMAIN scope THEN parse_decimal(scope[bt].value) ELSE Nothing

\* parse_decimal(record.value) if record else 0.0
ParseOrZero(scope, bt) ==
  IF bt \in DOMAIN scope THEN parse_decimal(scope[bt].value) ELSE Some(0)

\* record and not record.value
HasEmpty(scope, bt) == bt \in DOMAIN scope /\ ~Truthy(scope[bt].value)

\* record and record.value
HasSet(scope, bt) == bt \in DOMAIN scope /\ Truthy(scope[bt].value)

EvidenceOf(scope, bt) == IF bt \in DOMAIN scope THEN scope[bt].evidence ELSE NoEvidence

(***************************************************************************)
(* normalize.parse_decimal on the characters of a text.  The float it      *)
(* returns is [ok, neg, m, s]: ok is FALSE for None, else the number has   *)
(* the sign neg and the magnitude m / 10^s.                                *)
(***************************************************************************)
Digits == <<"0", "1", "2", "3", "4", "5", "6", "7", "8", "9">>

IsDigit(c) == \E i \in DOMAIN Digits : Digits[i] = c

DigitVal(c) == (CHOOSE i \in DOMAIN Digits : Digits[i] = c) - 1

DigitChar(d) == Digits[d + 1]

\* DECIMAL_RE = [^0-9,\.-]+ matches every run of other characters
IsKept(c) == IsDigit(c) \/ c \in {",", ".", "-"}

\* DECIMAL_RE.sub("", text)
StripOther(text) == SelectSeq(text, IsKept)

\* c in text
Has(text, c) == \E i \in DOMAIN text : text[i] = c

\* text.rfind(c) for a character that occurs in the text
RFind(text, c) ==
  CHOOSE i \in DOMAIN text : text[i] = c /\ \A j \in DOMAIN text : text[j] = c => j <= i

\* text.replace(c, "")
Remove(text, c) == SelectSeq(text, LAMBDA x : x # c)

\* text.replace(",", ".")
CommaToDot(text) == [i \in DOMAIN text |-> IF text[i] = "," THEN "." ELSE text[i]]

\* a separator resolution that always reads the comma as the decimal separator
ResolveSeparatorsEuropean(text) ==
  IF Has(text, ",") THEN CommaToDot(Remove(text, ".")) ELSE text

\* lines 21-32: the decimal separator is the one of "," and "." that occurs last
ResolveSeparators(text) ==
  IF Has(text, ",") /\ Has(text, ".")
    THEN IF RFind(text, ",") > RFind(text, ".") THEN CommaToDot(Remove(text, "."))
         ELSE Remove(text, ",")
  ELSE IF Has(text, ",") THEN CommaToDot(text)
  ELSE text

RECURSIVE DigitsValue(_)
DigitsValue(ds) ==
  IF ds = <<>> THEN 0
  ELSE 10 * DigitsValue(SubSeq(ds, 1, Len(ds) - 1)) + DigitVal(ds[Len(ds)])

NoNumber == [ok |-> FALSE, neg |-> FALSE, m |-> 0, s |-> 0]

\* float(text) for a text of digits, "." and "-": an optional sign, then digits with
\* at most one point and at least one digit; ValueError (None) otherwise
ToFloat(text) ==
  LET neg == text # <<>> /\ Head(text) = "-"
      body == IF neg THEN Tail(text) ELSE text
      digits == SelectSeq(body, IsDigit)
  IN IF digits = <<>> \/ Has(body, "-") \/ Len(body) - Len(digits) > 1 THEN NoNumber
     ELSE [ok |-> TRUE, neg |-> neg, m |-> DigitsValue(digits),
           s |-> IF Has(body, ".") THEN Len(body) - RFind(body, ".") ELSE 0]

\* normalize.parse_decimal of a str
parse_decimal_text(text) == ToFloat(ResolveSeparators(StripOther(text)))

RECURSIVE Pow10(_)
Pow10(n) == IF n = 0 THEN 1 ELSE 10 * Pow10(n - 1)

\* the decimal digits of a natural number
RECURSIVE DigitsOf(_)
DigitsOf(n) ==
  IF n < 10 THEN <<DigitChar(n)>> ELSE Append(DigitsOf(n \div 10), DigitChar(n % 10))

\* f"{x:.2f}"; no text of the model lies half-way between two hundredths
format_2f(x) ==
  LET cents == RoundDivPos(x.m * 100, Pow10(x.s))
  IN (IF x.neg THEN <<"-">> ELSE <<>>) \o DigitsOf(cents \div 100)
     \o <<".", DigitChar((cents \div 10) % 10), DigitChar(cents % 10)>>

(***************************************************************************)
(* TOLERANCE = 0.02 compared on IEEE-754 doubles:                          *)
(*     abs(x - y) > TOLERANCE                                              *)
(* x and y are the doubles nearest to a/100 and b/100.  A double nearest   *)
(* to c/100 is q * 2^-k with q = round(c * 2^k / 100), k = 52 - e and      *)
(* 2^e <= c/100 < 2^(e+1); its error is RoundErr(c) * 2^-k / 100.  The     *)
(* subtraction of the two doubles is exact, so at a distance of 2 cents    *)
(* the comparison is decided by the three rounding errors.                 *)
(***************************************************************************)
TOLERANCE == 2

RECURSIVE Pow2(_)
Pow2(n) == IF n = 0 THEN 1 ELSE 2 * Pow2(n - 1)

RECURSIVE Pow2Mod200(_)
Pow2Mod200(n) == IF n = 0 THEN 1 ELSE (2 * Pow2Mod200(n - 1)) % 200

\* floor(log2(c / 100)) for c > 0
RECURSIVE ExpUp(_, _)
ExpUp(c, e) == IF c >= 100 * Pow2(e + 1) THEN ExpUp(c, e + 1) ELSE e

RECURSIVE ExpDown(_, _)
ExpDown(c, j) == IF c * Pow2(j) >= 100 THEN -j ELSE ExpDown(c, j + 1)

Binade(c) == IF c >= 100 THEN ExpUp(c, 0) ELSE ExpDown(c, 1)

MantissaShift(c) == 52 - Binade(c)

\* signed error of the double nearest to c/100, in units of 2^-MantissaShift(c) / 100
RoundErr(c) ==
  LET r == ((c % 200) * Pow2Mod200(MantissaShift(c))) % 200
      r100 == r % 100
  IN IF r100 < 50 THEN -r100
     ELSE IF r100 > 50 THEN 100 - r100
     ELSE IF r = 50 THEN -50 ELSE 50

\* the largest shift of an amount of the model: one cent has shift 59
MaxShift == 59

ScaledErr(c) == IF c = 0 THEN 0 ELSE RoundErr(c) * Pow2(MaxShift - MantissaShift(c))

\* abs(a/100 - b/100) > TOLERANCE on doubles
ExceedsTolerance(a, b) ==
  LET d == Abs(a - b)
      hi == IF a >= b THEN a ELSE b
      lo == IF a >= b THEN b ELSE a
  IN IF d # TOLERANCE THEN d > TOLERANCE
     ELSE IF lo >= 0 THEN ScaledErr(hi) - ScaledErr(lo) > ScaledErr(TOLERANCE)
     ELSE IF hi <= 0 THEN ScaledErr(-lo) - ScaledErr(-hi) > ScaledErr(TOLERANCE)
     ELSE FALSE

(***************************************************************************)
(* Helpers over the lines of an invoice                                    *)
(***************************************************************************)
\* parse_decimal(line.bt.get(bt).value) if line.bt.get(bt) else None
LineNum(line, bt) == ParseIfHas(line.bt, bt)

RECURSIVE SeqCat(_)
SeqCat(ss) == IF ss = <<>> THEN <<>> ELSE Head(ss) \o SeqCat(Tail(ss))

RECURSIVE SeqSum(_)
SeqSum(ns) == IF ns = <<>> THEN 0 ELSE Head(ns) + SeqSum(Tail(ns))

Opt(cond, patch) == IF cond THEN <<patch>> ELSE <<>>

\* the BT-131 amounts of the lines that parse, in line order
LineNetValues(inv) ==
  SeqCat([i \in 1..Len(inv.lines) |->
            LET value == LineNum(inv.lines[i], "BT-131")
            IN IF value.ok THEN <<value.n>> ELSE <<>>])

\* {line.bt["BT-151"].value for lines with a record holding a value}
Categories(inv) ==
  {inv.lines[i].bt["BT-151"].value :
     i \in {j \in 1..Len(inv.lines) : HasSet(inv.lines[j].bt, "BT-151")}}

(***************************************************************************)
(* rules_engine.phase3_validate                                            *)
(***************************************************************************)
\* a validation that marks its patches like the corrections of the other phases
WrongMathAsCorrected(bt, cents, derivation, rule_id) ==
  Patch("totals", bt, Dec2(cents), NoLine, "corrected", "rule", derivation, rule_id, NoEvidence)

WrongMath(bt, cents, derivation, rule_id) ==
  Patch("totals", bt, Dec2(cents), NoLine, "wrong_math", "rule", derivation, rule_id, NoEvidence)

\* abs(parse_decimal(bt115.value) - computed) with parse_decimal returning None
phase3_raises(inv) ==
  LET bt112_val == ParseIfSet(inv.totals, "BT-112")
      bt113_val == ParseIfSet(inv.totals, "BT-113")
  IN /\ bt112_val.ok /\ bt113_val.ok
     /\ HasSet(inv.totals, "BT-115")
     /\ ~parse_decimal(inv.totals["BT-115"].value).ok

phase3_validate(inv) ==
  LET bt106_val == ParseIfHas(inv.totals, "BT-106")
      bt107_val == ParseOrZero(inv.totals, "BT-107")
      bt108_val == ParseOrZero(inv.totals, "BT-108")
      bt116_val == ParseIfHas(inv.totals, "BT-116")
      bt109_val == ParseIfSet(inv.totals, "BT-109")
      bt110_val == ParseIfSet(inv.totals, "BT-110")
      bt112_val == ParseIfSet(inv.totals, "BT-112")
      bt113_val == ParseIfSet(inv.totals, "BT-113")
      line_net_values == LineNetValues(inv)
      line_sum == SeqSum(line_net_values)
      net == bt106_val.n - Or0(bt107_val) + Or0(bt108_val)
      gross == bt109_val.n + bt110_val.n
      due == bt112_val.n - bt113_val.n - Or0(bt107_val)
  IN Opt(/\ line_net_values # <<>>
         /\ bt106_val.ok /\ ExceedsTolerance(bt106_val.n, line_sum)
         /\ "BT-106" \in DOMAIN inv.totals,
         WrongMath("BT-106", line_sum, "Sum of line net amounts (BT-131)", "R-TOT-CHECK-004"))
     \o
     Opt(/\ bt106_val.ok
         /\ bt109_val.ok /\ ExceedsTolerance(bt109_val.n, net)
         /\ "BT-109" \in DOMAIN inv.totals,
         WrongMath("BT-109", net, "BT-106 - BT-107 + BT-108", "R-TOT-CHECK-001"))
     \o
     Opt(/\ bt109_val.ok /\ bt110_val.ok
         /\ bt112_val.ok /\ ExceedsTolerance(bt112_val.n, gross)
         /\ "BT-112" \in DOMAIN inv.totals,
         WrongMath("BT-112", gross, "BT-109 + BT-110", "R-TOT-CHECK-002"))
     \o
     Opt(/\ bt112_val.ok /\ bt113_val.ok
         /\ HasSet(inv.totals, "BT-115")
         /\ ExceedsTolerance(parse_decimal(inv.totals["BT-115"].value).n, due),
         WrongMath("BT-115", due, "BT-112 - BT-113 - BT-107", "R-TOT-CHECK-003"))
     \o
     Opt(/\ bt116_val.ok /\ bt109_val.ok
         /\ Cardinality(Categories(inv)) <= 1
         /\ ExceedsTolerance(bt116_val.n, bt109_val.n)
         /\ "BT-116" \in DOMAIN inv.totals,
         WrongMath("BT-116", bt109_val.n, "Taxable amount equals total without VAT (single VAT category)",
                   "R-TOT-CHECK-005"))

(***************************************************************************)
(* Text helpers: what the string functions of the rules do on the words    *)
(* the model uses.                                                         *)
(***************************************************************************)
Iso(d) == [k |-> "iso", n |-> d, t |-> <<>>]
Dmy(d) == [k |-> "dmy", n |-> d, t |-> <<>>]

\* normalize.parse_date_to_iso: DD.MM.YYYY or YYYY-MM-DD as the whole text
parse_date_to_iso(v) ==
  IF v.k \in {"dmy", "iso"} THEN Iso(v.n) ELSE None

\* str.upper() of a word
Upper(w) ==
  CASE w = "de123" -> "DE123"
    [] w = "de" -> "DE"
    [] w = "fr" -> "FR"
    [] OTHER -> w

\* re.search(r"([A-Z]{2}\d+)", word): the match, "" when there is none
VatMatch(w) ==
  CASE w \in {"DE123", "AT456"} -> w
    [] w = "ID:DE123" -> "DE123"
    [] OTHER -> ""

\* the first two characters of a word
Prefix2(w) ==
  CASE w \in {"DE123", "DE"} -> "DE"
    [] w \in {"AT456", "AT"} -> "AT"
    [] w = "ID:DE123" -> "ID"
    [] w = "UST-ID" -> "US"
    [] OTHER -> w

\* normalize.normalize_vat_id: strip, upper and drop white space; the words stay,
\* upper-cased (a text of several words reads as their concatenation)
normalize_vat_id(v) ==
  IF v.k # "text" \/ v.t = <<>> THEN None
  ELSE Text([i \in 1..Len(v.t) |-> W(Upper(v.t[i].w))])

RECURSIVE FirstVatMatch(_)
FirstVatMatch(ws) ==
  IF ws = <<>> THEN ""
  ELSE IF VatMatch(Head(ws).w) # "" THEN VatMatch(Head(ws).w)
  ELSE FirstVatMatch(Tail(ws))

\* rules_engine._extract_vat_id
extract_vat_id(v) ==
  LET text == normalize_vat_id(v)
  IN IF text = None THEN None
     ELSE IF FirstVatMatch(text.t) # "" THEN Word(FirstVatMatch(text.t))
     ELSE text

\* normalize.normalize_country
normalize_country(v) ==
  IF v.k # "text" \/ Len(v.t) # 1 THEN None
  ELSE LET w == v.t[1].w
       IN IF w \in {"Deutschland", "Germany", "DE", "de"} THEN Word("DE")
          ELSE IF w \in {"FR", "fr", "AT"} THEN Word(Upper(w))
          ELSE None

\* isinstance(value, str)
IsStr(v) == v.k \notin {"none", "float"}

\* the orders in which a Python set of the given codes can be iterated
Orders(S) ==
  {f \in [1..Cardinality(S) -> S] : \A i, j \in 1..Cardinality(S) : f[i] = f[j] => i = j}

(***************************************************************************)
(* rules_engine.phase1_normalize                                           *)
(***************************************************************************)
amount_bts ==
  {"BT-92", "BT-93", "BT-94", "BT-99", "BT-100", "BT-103", "BT-106", "BT-107",
   "BT-108", "BT-109", "BT-110", "BT-112", "BT-113", "BT-115", "BT-116"}

line_amount_bts == {"BT-131", "BT-146", "BT-147", "BT-148", "BT-149"}

Corrected(scope, bt, value, line_id, derivation, rule_id, evidence) ==
  Patch(scope, bt, value, line_id, "corrected", "rule", derivation, rule_id, evidence)

\* record and isinstance(record.value, str) and the text parses and is not its two-decimal form
NeedsAmountNorm(scope, bt) ==
  /\ bt \in DOMAIN scope
  /\ IsStr(scope[bt].value)
  /\ parse_decimal(scope[bt].value).ok
  /\ Dec2(parse_decimal(scope[bt].value).n) # scope[bt].value

NormTotals(inv) == {bt \in amount_bts : NeedsAmountNorm(inv.totals, bt)}

NormLineCodes(inv) ==
  {bt \in line_amount_bts : \E i \in 1..Len(inv.lines) : NeedsAmountNorm(inv.lines[i].bt, bt)}

\* the header rules of phase 1, in program order
phase1_header(inv) ==
  LET h == inv.header
      bt2_norm == IF "BT-2" \in DOMAIN h
                    THEN parse_date_to_iso(IF Truthy(h["BT-2"].raw_value) THEN h["BT-2"].raw_value
                                           ELSE h["BT-2"].value)
                    ELSE None
      bt31_norm == IF "BT-31" \in DOMAIN h THEN extract_vat_id(h["BT-31"].value) ELSE None
      bt55_norm == IF "BT-55" \in DOMAIN h THEN normalize_country(h["BT-55"].value) ELSE None
  IN Opt(HasSet(h, "BT-2") /\ Truthy(bt2_norm) /\ bt2_norm # h["BT-2"].value,
         Corrected("header", "BT-2", bt2_norm, NoLine, "Normalized date to ISO",
                   "R-HDR-DATE-001", EvidenceOf(h, "BT-2")))
     \o
     Opt(HasSet(h, "BT-31") /\ Truthy(bt31_norm) /\ bt31_norm # h["BT-31"].value,
         Corrected("header", "BT-31", bt31_norm, NoLine, "Normalized VAT ID",
                   "R-HDR-VAT-001", EvidenceOf(h, "BT-31")))
     \o
     Opt(HasSet(h, "BT-55") /\ Truthy(bt55_norm) /\ bt55_norm # h["BT-55"].value,
         Corrected("header", "BT-55", bt55_norm, NoLine, "Normalized country to ISO2",
                   "R-HDR-COUNTRY-BUYER-001", EvidenceOf(h, "BT-55")))

\* tot_order, line_order: the iteration orders of amount_bts and line_amount_bts,
\* restricted to the codes that give a patch
phase1_normalize(inv, tot_order, line_order) ==
  phase1_header(inv)
  \o
  [j \in 1..Len(tot_order) |->
     Corrected("totals", tot_order[j], Dec2(parse_decimal(inv.totals[tot_order[j]].value).n), NoLine,
               "Normalized amount format", "R-TOT-AMOUNT-NORM-001",
               inv.totals[tot_order[j]].evidence)]
  \o
  SeqCat([i \in 1..Len(inv.lines) |->
    SeqCat([j \in 1..Len(line_order) |->
      Opt(NeedsAmountNorm(inv.lines[i].bt, line_order[j]),
          Corrected("line", line_order[j],
                    Dec2(parse_decimal(inv.lines[i].bt[line_order[j]].value).n),
                    inv.lines[i].line_id, "Normalized amount format",
                    "R-LINE-AMOUNT-NORM-001", inv.lines[i].bt[line_order[j]].evidence))])])

phase1_results(inv) ==
  {phase1_normalize(inv, tot_order, line_order) :
     tot_order \in Orders(NormTotals(inv)), line_order \in Orders(NormLineCodes(inv))}

(***************************************************************************)
(* German post codes (rules_engine.DE_STATE_CODES, DE_POSTCODE_RANGES)     *)
(***************************************************************************)
DE_STATE_CODES(state) ==
  CASE state = "Baden-Wuerttemberg" -> "DE-BW"
    [] state = "Bayern" -> "DE-BY"
    [] state = "Berlin" -> "DE-BE"
    [] state = "Brandenburg" -> "DE-BB"
    [] state = "Bremen" -> "DE-HB"
    [] state = "Hamburg" -> "DE-HH"
    [] state = "Hessen" -> "DE-HE"
    [] state = "Mecklenburg-Vorpommern" -> "DE-MV"
    [] state = "Niedersachsen" -> "DE-NI"
    [] state = "Nordrhein-Westfalen" -> "DE-NW"
    [] state = "Rheinland-Pfalz" -> "DE-RP"
    [] state = "Saarland" -> "DE-SL"
    [] state = "Sachsen" -> "DE-SN"
    [] state = "Sachsen-Anhalt" -> "DE-ST"
    [] state = "Schleswig-Holstein" -> "DE-SH"
    [] state = "Thueringen" -> "DE-TH"
    [] OTHER -> ""

DE_POSTCODE_RANGES ==
  <<<<1001, 1936, "Sachsen">>, <<1941, 1998, "Brandenburg">>, <<2601, 2999, "Sachsen">>,
    <<3001, 3253, "Brandenburg">>, <<4001, 4579, "Sachsen">>, <<4581, 4639, "Thueringen">>,
    <<4641, 4889, "Sachsen">>, <<4891, 4938, "Brandenburg">>, <<6001, 6548, "Sachsen-Anhalt">>,
    <<6551, 6578, "Thueringen">>, <<6601, 6928, "Sachsen-Anhalt">>,
    <<7301, 7919, "Thueringen">>, <<7919, 7919, "Sachsen">>, <<7919, 7919, "Thueringen">>,
    <<7919, 7919, "Sachsen">>, <<7920, 7950, "Thueringen">>, <<7951, 7951, "Sachsen">>,
    <<7952, 7952, "Thueringen">>, <<7952, 7952, "Sachsen">>, <<7953, 7980, "Thueringen">>,
    <<7982, 7982, "Sachsen">>, <<7985, 7985, "Thueringen">>, <<7985, 7985, "Sachsen">>,
    <<7985, 7989, "Thueringen">>, <<8001, 9669, "Sachsen">>, <<10001, 14330, "Berlin">>,
    <<14401, 14715, "Brandenburg">>, <<14715, 14715, "Sachsen-Anhalt">>,
    <<14723, 16949, "Brandenburg">>, <<17001, 17256, "Mecklenburg-Vorpommern">>,
    <<17258, 17258, "Brandenburg">>, <<17258, 17259, "Mecklenburg-Vorpommern">>,
    <<17261, 17291, "Brandenburg">>, <<17301, 17309, "Mecklenburg-Vorpommern">>,
    <<17309, 17309, "Brandenburg">>, <<17309, 17321, "Mecklenburg-Vorpommern">>,
    <<17321, 17321, "Brandenburg">>, <<17321, 17322, "Mecklenburg-Vorpommern">>,
    <<17326, 17326, "Brandenburg">>, <<17328, 17331, "Mecklenburg-Vorpommern">>,
    <<17335, 17335, "Brandenburg">>, <<17335, 17335, "Mecklenburg-Vorpommern">>,
    <<17337, 17337, "Brandenburg">>, <<17337, 19260, "Mecklenburg-Vorpommern">>,
    <<19271, 19273, "Niedersachsen">>, <<19273, 19273, "Mecklenburg-Vorpommern">>,
    <<19273, 19306, "Mecklenburg-Vorpommern">>, <<19307, 19357, "Brandenburg">>,
    <<19357, 19417, "Mecklenburg-Vorpommern">>, <<20001, 21037, "Hamburg">>,
    <<21039, 21039, "Schleswig-Holstein">>, <<21039, 21170, "Hamburg">>,
    <<21202, 21449, "Niedersachsen">>, <<21451, 21521, "Schleswig-Holstein">>,
    <<21522, 21522, "Niedersachsen">>, <<21524, 21529, "Schleswig-Holstein">>,
    <<21601, 21789, "Niedersachsen">>, <<22001, 22113, "Hamburg">>,
    <<22113, 22113, "Schleswig-Holstein">>, <<22115, 22143, "Hamburg">>,
    <<22145, 22145, "Schleswig-Holstein">>, <<22145, 22145, "Hamburg">>,
    <<22145, 22145, "Schleswig-Holstein">>, <<22147, 22786, "Hamburg">>,
    <<22801, 23919, "Schleswig-Holstein">>, <<23921, 23999, "Mecklenburg-Vorpommern">>,
    <<24001, 25999, "Schleswig-Holstein">>, <<26001, 27478, "Niedersachsen">>,
    <<27483, 27498, "Schleswig-Holstein">>, <<27499, 27499, "Hamburg">>,
    <<27501, 27580, "Bremen">>, <<27607, 27809, "Niedersachsen">>, <<28001, 28779, "Bremen">>,
    <<28784, 29399, "Niedersachsen">>, <<29401, 29416, "Sachsen-Anhalt">>,
    <<29431, 31868, "Niedersachsen">>, <<32001, 33829, "Nordrhein-Westfalen">>,
    <<34001, 34329, "Hessen">>, <<34331, 34353, "Niedersachsen">>, <<34355, 34355, "Hessen">>,
    <<34355, 34355, "Niedersachsen">>, <<34356, 34399, "Hessen">>,
    <<34401, 34439, "Nordrhein-Westfalen">>, <<34441, 36399, "Hessen">>,
    <<36401, 36469, "Thueringen">>, <<37001, 37194, "Niedersachsen">>,
    <<37194, 37195, "Hessen">>, <<37197, 37199, "Niedersachsen">>, <<37201, 37299, "Hessen">>,
    <<37301, 37359, "Thueringen">>, <<37401, 37649, "Niedersachsen">>,
    <<37651, 37688, "Nordrhein-Westfalen">>, <<37689, 37691, "Niedersachsen">>,
    <<37692, 37696, "Nordrhein-Westfalen">>, <<37697, 38479, "Niedersachsen">>,
    <<38481, 38489, "Sachsen-Anhalt">>, <<38501, 38729, "Niedersachsen">>,
    <<38801, 39649, "Sachsen-Anhalt">>, <<40001, 48432, "Nordrhein-Westfalen">>,
    <<48442, 48465, "Niedersachsen">>, <<48466, 48477, "Nordrhein-Westfalen">>,
    <<48478, 48480, "Niedersachsen">>, <<48481, 48485, "Nordrhein-Westfalen">>,
    <<48486, 48488, "Niedersachsen">>, <<48489, 48496, "Nordrhein-Westfalen">>,
    <<48497, 48531, "Niedersachsen">>, <<48541, 48739, "Nordrhein-Westfalen">>,
    <<49001, 49459, "Niedersachsen">>, <<49461, 49549, "Nordrhein-Westfalen">>,
    <<49551, 49849, "Niedersachsen">>, <<50101, 51597, "Nordrhein-Westfalen">>,
    <<51598, 51598, "Rheinland-Pfalz">>, <<51601, 53359, "Nordrhein-Westfalen">>,
    <<53401, 53579, "Rheinland-Pfalz">>, <<53581, 53604, "Nordrhein-Westfalen">>,
    <<53614, 53619, "Rheinland-Pfalz">>, <<53621, 53949, "Nordrhein-Westfalen">>,
    <<54181, 55239, "Rheinland-Pfalz">>, <<55240, 55252, "Hessen">>,
    <<55253, 56869, "Rheinland-Pfalz">>, <<57001, 57489, "Nordrhein-Westfalen">>,
    <<57501, 57648, "Rheinland-Pfalz">>, <<58001, 59966, "Nordrhein-Westfalen">>,
    <<59969, 59969, "Hessen">>, <<59969, 59969, "Nordrhein-Westfalen">>,
    <<60001, 63699, "Hessen">>, <<63701, 63774, "Bayern">>, <<63776, 63776, "Hessen">>,
    <<63776, 63928, "Bayern">>, <<63928, 63928, "Baden-Wuerttemberg">>,
    <<63930, 63939, "Bayern">>, <<64201, 64753, "Hessen">>,
    <<64754, 64754, "Baden-Wuerttemberg">>, <<64754, 65326, "Hessen">>,
    <<65326, 65326, "Rheinland-Pfalz">>, <<65327, 65391, "Hessen">>,
    <<65391, 65391, "Rheinland-Pfalz">>, <<65392, 65556, "Hessen">>,
    <<65558, 65582, "Rheinland-Pfalz">>, <<65583, 65620, "Hessen">>,
    <<65621, 65626, "Rheinland-Pfalz">>, <<65627, 65627, "Hessen">>,
    <<65629, 65629, "Rheinland-Pfalz">>, <<65701, 65936, "Hessen">>,
    <<66001, 66459, "Saarland">>, <<66461, 66509, "Rheinland-Pfalz">>,
    <<66511, 66839, "Saarland">>, <<66841, 67829, "Rheinland-Pfalz">>,
    <<68001, 68312, "Baden-Wuerttemberg">>, <<68501, 68519, "Hessen">>,
    <<68520, 68549, "Baden-Wuerttemberg">>, <<68601, 68649, "Hessen">>,
    <<68701, 69234, "Baden-Wuerttemberg">>, <<69235, 69239, "Hessen">>,
    <<69240, 69429, "Baden-Wuerttemberg">>, <<69430, 69431, "Hessen">>,
    <<69434, 69434, "Baden-Wuerttemberg">>, <<69434, 69434, "Hessen">>,
    <<69435, 69469, "Baden-Wuerttemberg">>, <<69479, 69488, "Hessen">>,
    <<69489, 69502, "Baden-Wuerttemberg">>, <<69503, 69509, "Hessen">>,
    <<69510, 69514, "Baden-Wuerttemberg">>, <<69515, 69518, "Hessen">>,
    <<70001, 74592, "Baden-Wuerttemberg">>, <<74594, 74594, "Bayern">>,
    <<74594, 76709, "Baden-Wuerttemberg">>, <<76711, 76891, "Rheinland-Pfalz">>,
    <<77601, 79879, "Baden-Wuerttemberg">>, <<80001, 87490, "Bayern">>,
    <<87491, 87491, "Ausserhalb der BRD">>, <<87493, 87561, "Bayern">>,
    <<87567, 87569, "Ausserhalb der BRD">>, <<87571, 87789, "Bayern">>,
    <<88001, 88099, "Baden-Wuerttemberg">>, <<88101, 88146, "Bayern">>,
    <<88147, 88147, "Baden-Wuerttemberg">>, <<88147, 88179, "Bayern">>,
    <<88181, 89079, "Baden-Wuerttemberg">>, <<89081, 89081, "Bayern">>,
    <<89081, 89085, "Baden-Wuerttemberg">>, <<89087, 89087, "Bayern">>,
    <<89090, 89198, "Baden-Wuerttemberg">>, <<89201, 89449, "Bayern">>,
    <<89501, 89619, "Baden-Wuerttemberg">>, <<90001, 96489, "Bayern">>,
    <<96501, 96529, "Thueringen">>, <<97001, 97859, "Bayern">>,
    <<97861, 97877, "Baden-Wuerttemberg">>, <<97888, 97892, "Bayern">>,
    <<97893, 97896, "Baden-Wuerttemberg">>, <<97896, 97896, "Bayern">>,
    <<97897, 97900, "Baden-Wuerttemberg">>, <<97901, 97909, "Bayern">>,
    <<97911, 97999, "Baden-Wuerttemberg">>, <<98501, 99998, "Thueringen">>>>

Plz(n) == [k |-> "plz", n |-> n, t |-> <<>>]
DPlz(n) == [k |-> "dplz", n |-> n, t |-> <<>>]

\* rules_engine._normalize_de_postcode: the first five digits of the text;
\* "plz" is a text of five digits, "dplz" the same after "D-"
normalize_de_postcode(v) ==
  IF v.k \in {"plz", "dplz"} THEN Some(v.n) ELSE Nothing

\* a lookup that settles an ambiguous post code by the first range that holds it
de_subdivision_first_range(v) ==
  LET post_code == normalize_de_postcode(v)
      holding == {j \in 1..Len(DE_POSTCODE_RANGES) :
                    /\ DE_POSTCODE_RANGES[j][1] <= post_code.n
                    /\ post_code.n <= DE_POSTCODE_RANGES[j][2]}
  IN IF ~post_code.ok \/ holding = {} THEN ""
     ELSE DE_STATE_CODES(DE_POSTCODE_RANGES[CHOOSE j \in holding : \A k \in holding : j <= k][3])

\* rules_engine._de_subdivision_from_postcode, "" for None
de_subdivision_from_postcode(v) ==
  LET post_code == normalize_de_postcode(v)
      matches == {DE_POSTCODE_RANGES[i][3] :
                    i \in {j \in 1..Len(DE_POSTCODE_RANGES) :
                             /\ DE_POSTCODE_RANGES[j][1] <= post_code.n
                             /\ post_code.n <= DE_POSTCODE_RANGES[j][2]}}
                 \ {"Ausserhalb der BRD"}
  IN IF ~post_code.ok THEN ""
     ELSE IF Cardinality(matches) # 1 THEN ""
     ELSE DE_STATE_CODES(CHOOSE state \in matches : TRUE)

\* post_code.startswith("D-") or post_code.isdigit() and len(post_code) == 5
IsDePost(v) == v.k \in {"plz", "dplz"}

(***************************************************************************)
(* Payment words                                                           *)
(***************************************************************************)
\* any(token in word.lower() for token in instant_tokens)
InstantWord(w) ==
  w \in {"Vorkasse", "vorkasse", "PayPal", "Kreditkarte", "Credit card", "Online"}

\* any(token in str(value).lower() for token in instant_tokens)
HasInstantToken(v) == v.k = "text" /\ \E i \in 1..Len(v.t) : InstantWord(v.t[i].w)

\* first word of the class, [w |-> "", n |-> 0] when there is none
RECURSIVE FirstWord(_, _)
FirstWord(ws, class) ==
  IF ws = <<>> THEN W("")
  ELSE IF Head(ws).w = class THEN Head(ws)
  ELSE FirstWord(Tail(ws), class)

WordsOf(v) == IF v.k = "text" THEN v.t ELSE <<>>

\* re.search(r"(\d+(?:\.\d+)?)\s*%\s*skonto", terms): the phrase "<n>% Skonto" is the word "%skonto"
SkontoPercent(v) ==
  IF FirstWord(WordsOf(v), "%skonto").w = "" THEN Nothing
  ELSE Some(FirstWord(WordsOf(v), "%skonto").n)

\* re.search(r"\(([-\d\.]+)\s*(?:eur|€)?\)", terms): the phrase "(<a> EUR)" is the word "(eur)"
SkontoAmount(v) ==
  IF FirstWord(WordsOf(v), "(eur)").w = "" THEN Nothing
  ELSE Some(FirstWord(WordsOf(v), "(eur)").n)

\* a text of one word; a lone date reads as a DD.MM.YYYY value
OneWord(word) == IF word.w = "date" THEN Dmy(word.n) ELSE Text(<<word>>)

(***************************************************************************)
(* rules_engine.phase2_derive                                              *)
(***************************************************************************)
Derived(scope, bt, value, line_id, derivation, rule_id, evidence) ==
  Patch(scope, bt, value, line_id, "derived", "derived", derivation, rule_id, evidence)

\* round(unit_price * qty * (1 - discount_pct / 100), 2); qty and discount in hundredths
LineTotal(unit_price, qty, discount_pct) ==
  IF ~discount_pct.ok THEN RoundDiv(unit_price * qty, 100)
  ELSE LET P == unit_price * qty
           D == 10000 - discount_pct.n
           q == P \div 1000000
           r == P % 1000000
       IN q * D + (r * (D \div 100) + (r * (D % 100) + 500000) \div 100) \div 10000

\* country code from a post code
CountryFromPost(h, post, country, derivation, rule_id) ==
  Opt(HasSet(h, post) /\ HasEmpty(h, country) /\ IsDePost(h[post].value),
      Derived("header", country, Word("DE"), NoLine, derivation, rule_id, EvidenceOf(h, post)))

\* country subdivision from a post code
SubdivFromPost(h, post, subdiv, derivation, rule_id) ==
  Opt(/\ HasSet(h, post) /\ HasEmpty(h, subdiv)
      /\ de_subdivision_from_postcode(h[post].value) # "",
      Derived("header", subdiv, Word(de_subdivision_from_postcode(h[post].value)), NoLine,
              derivation, rule_id, EvidenceOf(h, post)))

derive_line_ids(inv) ==
  SeqCat([i \in 1..Len(inv.lines) |->
    Opt(HasEmpty(inv.lines[i].bt, "BT-126"),
        Derived("line", "BT-126", DecRaw(100 * inv.lines[i].line_id), inv.lines[i].line_id,
                "Assigned line number as identifier", "R-LINE-ID-001", "line_index"))])

derive_post_codes(inv) ==
  LET h == inv.header
  IN CountryFromPost(h, "BT-53", "BT-55", "Derived country code from buyer post code",
                     "R-HDR-COUNTRY-BUYER-POST-001")
     \o SubdivFromPost(h, "BT-53", "BT-54",
                       "Derived country subdivision from German buyer post code",
                       "R-HDR-SUBDIV-BUYER-POST-001")
     \o CountryFromPost(h, "BT-38", "BT-40", "Derived country code from seller post code",
                        "R-HDR-COUNTRY-SELLER-POST-001")
     \o SubdivFromPost(h, "BT-38", "BT-39",
                       "Derived country subdivision from German seller post code",
                       "R-HDR-SUBDIV-SELLER-POST-001")
     \o SubdivFromPost(h, "BT-67", "BT-68",
                       "Derived country subdivision from German tax representative post code",
                       "R-HDR-SUBDIV-TAXREP-POST-001")
     \o CountryFromPost(h, "BT-78", "BT-80", "Derived country code from delivery post code",
                        "R-HDR-COUNTRY-DELIVERY-POST-001")
     \o SubdivFromPost(h, "BT-78", "BT-79",
                       "Derived country subdivision from German delivery post code",
                       "R-HDR-SUBDIV-DELIVERY-POST-001")

derive_skonto(inv) ==
  LET h == inv.header
      t == inv.totals
      active == /\ HasSet(h, "BT-20") /\ HasSet(h, "BT-81")
                /\ HasInstantToken(h["BT-81"].value)
      skonto_percent == IF active THEN SkontoPercent(h["BT-20"].value) ELSE Nothing
      skonto_amount == IF active THEN SkontoAmount(h["BT-20"].value) ELSE Nothing
      amount_set == skonto_amount.ok /\ HasEmpty(t, "BT-92")
  IN Opt(skonto_percent.ok /\ HasEmpty(t, "BT-94"),
         Derived("totals", "BT-94", Dec2(skonto_percent.n), NoLine,
                 "Skonto percentage from payment terms", "R-PAY-SKONTO-007", EvidenceOf(h, "BT-20")))
     \o
     Opt(amount_set,
         Derived("totals", "BT-92", Dec2(skonto_amount.n), NoLine,
                 "Skonto amount from payment terms", "R-PAY-SKONTO-008", EvidenceOf(h, "BT-20")))
     \o
     Opt(amount_set /\ HasEmpty(t, "BT-107"),
         Derived("totals", "BT-107", Dec2(skonto_amount.n), NoLine,
                 "Sum of document-level allowances", "R-TOT-ALLOW-001", EvidenceOf(h, "BT-20")))

derive_vat_categories(inv) ==
  SeqCat([i \in 1..Len(inv.lines) |->
    LET bts == inv.lines[i].bt
        rate == ParseIfSet(bts, "BT-152")
    IN Opt(HasEmpty(bts, "BT-151") /\ rate.ok,
           Derived("line", "BT-151", Word(IF rate.n > 0 THEN "S" ELSE "Z"), inv.lines[i].line_id,
                   "Derived VAT category from rate", "R-LINE-VATCAT-001",
                   EvidenceOf(bts, "BT-152")))])

derive_line_nets(inv) ==
  SeqCat([i \in 1..Len(inv.lines) |->
    LET bts == inv.lines[i].bt
        qty == LineNum(inv.lines[i], "BT-129")
        unit_price == LineNum(inv.lines[i], "BT-146")
        discount_pct == LineNum(inv.lines[i], "BT-138")
    IN Opt(HasEmpty(bts, "BT-131") /\ qty.ok /\ unit_price.ok,
           Derived("line", "BT-131", Dec2(LineTotal(unit_price.n, qty.n, discount_pct)),
                   inv.lines[i].line_id, "BT-146 * BT-129 * (1 - BT-138%)", "R-LINE-NET-001",
                   NoEvidence))])

\* the line net values summed into BT-106: BT-131, less BT-147 when BT-138 is unknown
DeriveLineNets(inv) ==
  SeqCat([i \in 1..Len(inv.lines) |->
    LET value == LineNum(inv.lines[i], "BT-131")
        has_discount_pct == LineNum(inv.lines[i], "BT-138")
        allowance == LineNum(inv.lines[i], "BT-147")
    IN IF ~value.ok THEN <<>>
       ELSE IF ~has_discount_pct.ok /\ allowance.ok THEN <<value.n - allowance.n>>
       ELSE <<value.n>>])

derive_sums(inv) ==
  LET t == inv.totals
      charge_amount == ParseIfSet(t, "BT-99")
      allowance_amount == ParseIfSet(t, "BT-92")
  IN Opt(DeriveLineNets(inv) # <<>> /\ HasEmpty(t, "BT-106"),
         Derived("totals", "BT-106", Dec2(SeqSum(DeriveLineNets(inv))), NoLine,
                 "Sum of line net amounts (line allowances applied)", "R-TOT-SUMS-001", NoEvidence))
     \o
     Opt(HasEmpty(t, "BT-108") /\ charge_amount.ok,
         Derived("totals", "BT-108", Dec2(charge_amount.n), NoLine,
                 "Derived from document charge amount", "R-TOT-SUMS-002", NoEvidence))
     \o
     Opt(HasEmpty(t, "BT-107") /\ allowance_amount.ok,
         Derived("totals", "BT-107", Dec2(allowance_amount.n), NoLine,
                 "Derived from document allowance amount", "R-TOT-SUMS-003", NoEvidence))

\* tokens = value.strip().split(); len(tokens) > 1 and tokens[0] == tokens[1]
Doubled(h, bt) ==
  /\ HasSet(h, bt) /\ h[bt].value.k = "text"
  /\ Len(h[bt].value.t) > 1 /\ h[bt].value.t[1] = h[bt].value.t[2]

derive_dedup(inv) ==
  LET h == inv.header
  IN Opt(Doubled(h, "BT-5"),
         Corrected("header", "BT-5", OneWord(h["BT-5"].value.t[1]), NoLine,
                   "Removed duplicate currency token", "R-HDR-CURRENCY-DEDUP-001",
                   EvidenceOf(h, "BT-5")))
     \o
     Opt(Doubled(h, "BT-72"),
         Corrected("header", "BT-72", OneWord(h["BT-72"].value.t[1]), NoLine,
                   "Removed duplicate date token", "R-HDR-DATE-DEDUP-001",
                   EvidenceOf(h, "BT-72")))

\* {round(r, 2) for the BT-152 rates of the lines that parse}
\* the rates of the lines as whole percents, not hundredths of a percent
RateSetInPercent(inv) ==
  {LineNum(inv.lines[i], "BT-152").n \div 100 :
     i \in {j \in 1..Len(inv.lines) : LineNum(inv.lines[j], "BT-152").ok}}

RateSet(inv) ==
  {LineNum(inv.lines[i], "BT-152").n :
     i \in {j \in 1..Len(inv.lines) : LineNum(inv.lines[j], "BT-152").ok}}

derive_grand_totals(inv) ==
  LET t == inv.totals
      bt106_val == ParseIfHas(t, "BT-106")
      bt107_val == ParseOrZero(t, "BT-107")
      bt108_val == ParseOrZero(t, "BT-108")
      bt109_val == ParseIfSet(t, "BT-109")
      bt110_val == ParseIfSet(t, "BT-110")
      bt112_val == ParseIfSet(t, "BT-112")
      bt113_val == ParseIfSet(t, "BT-113")
      net == bt106_val.n - Or0(bt107_val) + Or0(bt108_val)
      taxable == IF bt109_val.ok THEN bt109_val
                 ELSE IF bt106_val.ok THEN Some(net) ELSE Nothing
  IN Opt(bt106_val.ok /\ HasEmpty(t, "BT-109"),
         Derived("totals", "BT-109", Dec2(net), NoLine, "BT-106 - BT-107 + BT-108",
                 "R-TOT-GRAND-001", NoEvidence))
     \o
     Opt(bt109_val.ok /\ bt110_val.ok /\ HasEmpty(t, "BT-112"),
         Derived("totals", "BT-112", Dec2(bt109_val.n + bt110_val.n), NoLine, "BT-109 + BT-110",
                 "R-TOT-GRAND-002", NoEvidence))
     \o
     Opt(bt112_val.ok /\ bt109_val.ok /\ HasEmpty(t, "BT-110"),
         Derived("totals", "BT-110", Dec2(bt112_val.n - bt109_val.n), NoLine, "BT-112 - BT-109",
                 "R-TOT-GRAND-003", NoEvidence))
     \o
     Opt(bt112_val.ok /\ bt113_val.ok /\ HasEmpty(t, "BT-115"),
         Derived("totals", "BT-115", Dec2(bt112_val.n - bt113_val.n - Or0(bt107_val)), NoLine,
                 "BT-112 - BT-113 - BT-107", "R-TOT-GRAND-005", NoEvidence))
     \o
     Opt(bt109_val.ok /\ HasEmpty(t, "BT-110") /\ Cardinality(RateSet(inv)) = 1,
         Derived("totals", "BT-110",
                 Dec2(RoundDiv(bt109_val.n * (CHOOSE r \in RateSet(inv) : TRUE), 10000)), NoLine,
                 "BT-109 * rate%", "R-TOT-VAT-001", NoEvidence))
     \o
     Opt(HasEmpty(t, "BT-116") /\ taxable.ok /\ Cardinality(Categories(inv)) <= 1,
         Derived("totals", "BT-116", Dec2(taxable.n), NoLine,
                 "Taxable amount from total without VAT (single VAT category)",
                 "R-TOT-TAXABLE-001", NoEvidence))

\* a derivation whose grand-total rules read the sums derived earlier in the call
phase2_derive_cascading(inv) ==
  derive_line_ids(inv) \o derive_post_codes(inv) \o derive_skonto(inv)
  \o derive_vat_categories(inv) \o derive_line_nets(inv) \o derive_sums(inv)
  \o derive_dedup(inv) \o derive_grand_totals(ApplyAll(inv, derive_sums(inv)))

phase2_derive(inv) ==
  derive_line_ids(inv) \o derive_post_codes(inv) \o derive_skonto(inv)
  \o derive_vat_categories(inv) \o derive_line_nets(inv) \o derive_sums(inv)
  \o derive_dedup(inv) \o derive_grand_totals(inv)

(***************************************************************************)
(* The full text of the document (invoice.raw analyzeResult.content) is a  *)
(* sequence of stripped, non-empty lines [w, a, n]: w is the label of the  *)
(* line ("" for a line that is only an amount), a tells whether an amount  *)
(* follows the label after a colon, n is that amount in cents.  The line   *)
(* "19% MwSt." has the label "% MwSt." and its rate (in hundredths) as n.  *)
(* The label ":Versandkosten" is a line that starts with its colon, as in   *)
(* ": Versandkosten 5,00".                                                  *)
(***************************************************************************)
CL(w, a, n) == [w |-> w, a |-> a, n |-> n]

\* the line starts with a colon: line.split(":")[0] is the empty string
LeadingColon(line) == line.w = ":Versandkosten"

\* label.lower() in line.lower()
LineHas(line, label) ==
  CASE label = "Gesamtbetrag in EUR" -> line.w = "Gesamtbetrag in EUR"
    [] label = "Gesamtbetrag" ->
         line.w \in {"Gesamtbetrag", "Gesamtbetrag in EUR", "Gesamtbetrag abzgl. Skonto"}
    [] label = "Gesamtbetrag abzgl. Skonto" -> line.w = "Gesamtbetrag abzgl. Skonto"
    [] OTHER -> FALSE

\* parse_decimal of a whole line
WholeLineParse(line) ==
  IF line.w = "% MwSt." THEN Some(line.n)
  ELSE IF line.a THEN Some(line.n) ELSE Nothing

\* parse_decimal of the text after the last colon, or of the line without the label
AfterLabelParse(line) == IF line.a /\ line.w # "% MwSt." THEN Some(line.n) ELSE Nothing

\* the amount of line idx, or of the next line when line idx gives none
AmountAt(content, idx) ==
  IF AfterLabelParse(content[idx]).ok THEN AfterLabelParse(content[idx])
  ELSE IF idx + 1 <= Len(content) THEN WholeLineParse(content[idx + 1])
  ELSE Nothing

RECURSIVE FirstLineWith(_, _, _)
FirstLineWith(content, label, idx) ==
  IF idx > Len(content) THEN 0
  ELSE IF LineHas(content[idx], label) THEN idx
  ELSE FirstLineWith(content, label, idx + 1)

\* phase4_resolve._find_amount_after
find_amount_after(content, label) ==
  LET idx == FirstLineWith(content, label, 1)
  IN IF idx = 0 THEN Nothing ELSE AmountAt(content, idx)

\* Python "a or b" on Optional[float]: None and 0.0 are false
OrElse(a, b) == IF a.ok /\ a.n # 0 THEN a ELSE b

\* "EUR" in content or "€" in content
HasEuro(content) ==
  \E i \in 1..Len(content) : content[i].w \in {"Gesamtbetrag in EUR", "EUR"}

\* a charge pattern matches the line; it holds neither "versandart" nor "%"
IsChargeLine(line) == line.w \in {"Versandkosten", "Porto", ":Versandkosten"}

\* lines before idx with the same normalized text
SeenBefore(content, idx) == \E j \in 1..(idx - 1) : content[j] = content[idx]

\* the amounts of the charge lines, duplicates of a line dropped
ChargeAmounts(content) ==
  SeqCat([idx \in 1..Len(content) |->
            IF /\ ~SeenBefore(content, idx) /\ IsChargeLine(content[idx])
               /\ AmountAt(content, idx).ok
              THEN <<AmountAt(content, idx).n>> ELSE <<>>])

\* the text of a line before its first colon, as words
BeforeColon(line) ==
  IF LeadingColon(line) THEN <<>>
  ELSE IF line.w = "" THEN <<[w |-> "amount", n |-> line.n]>>
  ELSE IF line.w = "% MwSt." THEN <<[w |-> "% MwSt.", n |-> line.n]>>
  ELSE <<W(line.w)>>

\* evidence_snippets[0].split(":")[0]: the first charge line with an amount, up to its
\* colon; when the amount stands on the next line the snippet is both lines
RECURSIVE FirstChargeSnippet(_, _)
FirstChargeSnippet(content, idx) ==
  IF idx > Len(content) THEN <<>>
  ELSE IF /\ ~SeenBefore(content, idx) /\ IsChargeLine(content[idx])
          /\ AmountAt(content, idx).ok
         THEN IF LeadingColon(content[idx]) THEN <<>>
              ELSE IF AfterLabelParse(content[idx]).ok THEN <<W(content[idx].w)>>
              ELSE <<W(content[idx].w)>> \o BeforeColon(content[idx + 1])
  ELSE FirstChargeSnippet(content, idx + 1)

\* the rate of the last line naming "mwst" or "vat" with a word ending in "%"
RECURSIVE LastVatRate(_, _)
LastVatRate(content, idx) ==
  IF idx = 0 THEN Nothing
  ELSE IF content[idx].w = "% MwSt." THEN Some(content[idx].n)
  ELSE LastVatRate(content, idx - 1)

\* token in content.lower()
ContentHas(content, words) == \E i \in 1..Len(content) : content[i].w \in words

ContentInstant(content) ==
  ContentHas(content, {"Vorkasse", "PayPal", "Kreditkarte", "Credit card", "Online"})

\* rules_engine._extract_dates_from_text: the DD.MM.YYYY dates of a text, as day numbers
extract_dates_from_text(v) ==
  IF v.k = "dmy" THEN {v.n}
  ELSE IF v.k = "text" THEN {v.t[i].n : i \in {j \in 1..Len(v.t) : v.t[j].w = "date"}}
  ELSE {}

\* rules_engine._extract_days_from_text: the largest "<n> Tage" of a text, 0 for None
extract_days_from_text(v) ==
  LET days == IF v.k = "text"
                THEN {v.t[i].n : i \in {j \in 1..Len(v.t) : v.t[j].w = "tage"}}
                ELSE {}
  IN IF days = {} THEN 0 ELSE CHOOSE d \in days : \A e \in days : e <= d

Max(S) == CHOOSE d \in S : \A e \in S : e <= d

\* rules_engine._add_days: None unless the date is a YYYY-MM-DD text
add_days(v, days) == IF v.k = "iso" THEN Iso(v.n + days) ELSE None

(***************************************************************************)
(* rules_engine.phase4_resolve                                             *)
(***************************************************************************)
FullText == "full_text"

resolve_currency(inv) ==
  Opt(HasEmpty(inv.header, "BT-5") /\ HasEuro(inv.raw),
      Corrected("header", "BT-5", Word("EUR"), NoLine, "Detected currency token in full text",
                "R-HDR-CURRENCY-001", FullText))

resolve_seller_country(inv) ==
  LET h == inv.header
      vat == IF HasSet(h, "BT-31") THEN normalize_vat_id(h["BT-31"].value) ELSE None
  IN Opt(/\ "BT-40" \in DOMAIN h /\ Truthy(vat)
         /\ h["BT-40"].value # Word(Prefix2(vat.t[1].w)),
         Corrected("header", "BT-40", Word(Prefix2(vat.t[1].w)), NoLine,
                   "Derived from seller VAT prefix", "R-HDR-COUNTRY-SELLER-001",
                   EvidenceOf(h, "BT-31")))

\* _find_amount_after("Gesamtbetrag in EUR") or _find_amount_after("Gesamtbetrag")
TextGross(content) ==
  OrElse(find_amount_after(content, "Gesamtbetrag in EUR"),
         find_amount_after(content, "Gesamtbetrag"))

\* the three labels of the amount after Skonto: only "Gesamtbetrag abzgl. Skonto"
\* occurs in the texts of the model
TextAfterSkonto(content) ==
  OrElse(find_amount_after(content, "Gesamtbetrag abzgl. Skonto in EUR"),
         OrElse(find_amount_after(content, "Gesamtbetrag abzgl. Skonto"),
                find_amount_after(content, "Gesamtbetrag abzl. Skonto")))

resolve_text_gross(inv) ==
  Opt(HasEmpty(inv.totals, "BT-112") /\ TextGross(inv.raw).ok,
      Corrected("totals", "BT-112", Dec2(TextGross(inv.raw).n), NoLine,
                "Extracted total with VAT from totals block", "R-TOT-EXTRACT-001", FullText))

resolve_charges(inv) ==
  LET t == inv.totals
      charge_amounts == ChargeAmounts(inv.raw)
      total_charges == SeqSum(charge_amounts)
      vat_rate == LastVatRate(inv.raw, Len(inv.raw))
  IN IF charge_amounts = <<>> THEN <<>>
     ELSE <<Corrected("totals", "BT-99", Dec2(total_charges), NoLine,
                      "Summed document-level charges from totals section",
                      "R-TOT-CHARGE-003", FullText)>>
          \o Opt(HasEmpty(t, "BT-100"),
                 Derived("totals", "BT-100", Dec2(total_charges), NoLine,
                         "Charge base set to charge amount", "R-TOT-CHARGE-004", NoEvidence))
          \o Opt(HasEmpty(t, "BT-102"),
                 Derived("totals", "BT-102", Word("S"), NoLine,
                         "Standard VAT category for charges", "R-TOT-CHARGE-005", NoEvidence))
          \o Opt(HasEmpty(t, "BT-103") /\ vat_rate.ok,
                 Derived("totals", "BT-103", Dec2(vat_rate.n), NoLine,
                         "Detected VAT rate in totals", "R-TOT-CHARGE-006", NoEvidence))
          \o Opt(HasEmpty(t, "BT-104"),
                 Derived("totals", "BT-104", TextOf(FirstChargeSnippet(inv.raw, 1)), NoLine,
                         "Charge reason from totals label", "R-TOT-CHARGE-007", NoEvidence))
          \o Opt(HasEmpty(t, "BT-108"),
                 Derived("totals", "BT-108", Dec2(total_charges), NoLine,
                         "Sum of document-level charges", "R-TOT-CHARGE-008", NoEvidence))

\* instant payment named by BT-81 or BT-20
FieldInstant(inv) ==
  \/ HasSet(inv.header, "BT-81") /\ HasInstantToken(inv.header["BT-81"].value)
  \/ HasSet(inv.header, "BT-20") /\ HasInstantToken(inv.header["BT-20"].value)

instant_payment(inv) == FieldInstant(inv) \/ ContentInstant(inv.raw)

PayMeans(value, rule_id) ==
  Derived("header", "BT-81", Word(value), NoLine, "Detected payment means in full text",
          rule_id, FullText)

resolve_payment_means(inv) ==
  IF FieldInstant(inv) \/ ~ContentInstant(inv.raw) \/ ~HasEmpty(inv.header, "BT-81") THEN <<>>
  ELSE IF ContentHas(inv.raw, {"Vorkasse"}) THEN <<PayMeans("Vorkasse", "R-HDR-PAYMEANS-LOCAL-001")>>
  ELSE IF ContentHas(inv.raw, {"PayPal"}) THEN <<PayMeans("PayPal", "R-HDR-PAYMEANS-LOCAL-002")>>
  ELSE IF ContentHas(inv.raw, {"Kreditkarte", "Credit card"})
    THEN <<PayMeans("Credit card", "R-HDR-PAYMEANS-LOCAL-003")>>
  ELSE <<>>

\* due date from the due-date field itself: latest embedded date, else issue date + days
resolve_due_from_field(inv) ==
  LET h == inv.header
      existing == IF HasSet(h, "BT-9") THEN h["BT-9"].value ELSE EmptyStr
      dates == extract_dates_from_text(existing)
      days == extract_days_from_text(existing)
      due == IF HasSet(h, "BT-2") THEN add_days(h["BT-2"].value, days) ELSE None
  IN IF "BT-9" \notin DOMAIN h THEN <<>>
     ELSE IF dates # {}
       THEN Opt(h["BT-9"].value # Iso(Max(dates)),
                Corrected("header", "BT-9", Iso(Max(dates)), NoLine,
                          "Selected latest payment due date", "R-HDR-DUEDATE-002",
                          EvidenceOf(h, "BT-9")))
     ELSE Opt(days # 0 /\ HasSet(h, "BT-2") /\ Truthy(due) /\ h["BT-9"].value # due,
              Derived("header", "BT-9", due, NoLine, "Invoice date + days",
                      "R-HDR-DUEDATE-003", EvidenceOf(h, "BT-9")))

\* due date from the payment terms, when the due-date field is empty
resolve_due_from_terms(inv) ==
  LET h == inv.header
      terms == h["BT-20"].value
      dates == extract_dates_from_text(terms)
      days == extract_days_from_text(terms)
      due == IF HasSet(h, "BT-2") THEN add_days(h["BT-2"].value, days) ELSE None
  IN IF ~(HasEmpty(h, "BT-9") /\ HasSet(h, "BT-20")) THEN <<>>
     ELSE IF dates # {}
       THEN <<Derived("header", "BT-9", Iso(Max(dates)), NoLine,
                      "Derived due date from payment terms (latest date)",
                      "R-HDR-DUEDATE-004", EvidenceOf(h, "BT-20"))>>
     ELSE Opt(days # 0 /\ HasSet(h, "BT-2") /\ Truthy(due),
              Derived("header", "BT-9", due, NoLine, "Payment terms: invoice date + days",
                      "R-HDR-DUEDATE-005", EvidenceOf(h, "BT-20")))

\* record and (not record.value or record.status in {"derived", "wrong_math"})
Refillable(scope, bt) ==
  /\ bt \in DOMAIN scope
  /\ (~Truthy(scope[bt].value) \/ scope[bt].status \in {"derived", "wrong_math"})

\* the values the instant-payment rules compute
\* total_with_vat: BT-112, else the total of the text
InstantGross(inv) ==
  IF ParseIfSet(inv.totals, "BT-112").ok THEN ParseIfSet(inv.totals, "BT-112")
  ELSE TextGross(inv.raw)

\* allowance = round(total_with_vat - amount_after_skonto, 2), None outside [0, total]
InstantAllowance(inv) ==
  LET total_with_vat == InstantGross(inv)
      amount_after_skonto == TextAfterSkonto(inv.raw)
      allowance == total_with_vat.n - amount_after_skonto.n
  IN IF total_with_vat.ok /\ amount_after_skonto.ok
          /\ ~(allowance < 0 \/ allowance > total_with_vat.n)
       THEN Some(allowance) ELSE Nothing

\* the regular expressions of lines 1497, 1498 and 1509 ask for a backslash before
\* "d" and "s", which no text of the model holds: the percentage comes from the
\* allowance alone
InstantPercent(inv) ==
  IF InstantAllowance(inv).ok /\ InstantGross(inv).n # 0
    THEN Some(RoundDiv(InstantAllowance(inv).n * 10000, InstantGross(inv).n))
    ELSE Nothing

\* allowance_val = parse_decimal(bt107.value) if bt107 and bt107.value else 0.0
AllowanceVal(inv) ==
  IF HasSet(inv.totals, "BT-107") THEN parse_decimal(inv.totals["BT-107"].value) ELSE Some(0)

PaidBranch(inv) == Refillable(inv.totals, "BT-113") /\ InstantGross(inv).ok

DueBranch(inv) == Refillable(inv.totals, "BT-115") /\ InstantGross(inv).ok

\* total_with_vat - None (TypeError) in the paid-amount and amount-due rules
phase4_raises(inv) ==
  /\ instant_payment(inv)
  /\ \/ PaidBranch(inv) /\ ~TextAfterSkonto(inv.raw).ok /\ ~AllowanceVal(inv).ok
     \/ /\ DueBranch(inv) /\ HasSet(inv.totals, "BT-113")
        /\ (~AllowanceVal(inv).ok \/ ~parse_decimal(inv.totals["BT-113"].value).ok)

resolve_instant(inv) ==
  LET h == inv.header
      t == inv.totals
      total_with_vat == InstantGross(inv)
      amount_after_skonto == TextAfterSkonto(inv.raw)
      allowance == InstantAllowance(inv)
      skonto_percent == InstantPercent(inv)
      existing_allowance == ParseIfSet(t, "BT-92")
      paid == IF amount_after_skonto.ok THEN amount_after_skonto.n
              ELSE total_with_vat.n - AllowanceVal(inv).n
      computed_due == IF HasSet(t, "BT-113")
                        THEN total_with_vat.n - parse_decimal(t["BT-113"].value).n
                             - AllowanceVal(inv).n
                        ELSE 0
  IN IF ~instant_payment(inv) THEN <<>>
     ELSE
       Opt(HasEmpty(h, "BT-9") /\ HasSet(h, "BT-2"),
           Derived("header", "BT-9", h["BT-2"].value, NoLine,
                   "Instant payment: due date equals invoice date", "R-HDR-DUEDATE-001",
                   NoEvidence))
       \o Opt(skonto_percent.ok /\ HasEmpty(t, "BT-94"),
              Derived("totals", "BT-94", Dec2(skonto_percent.n), NoLine,
                      "Detected Skonto percentage in payment terms", "R-PAY-SKONTO-001",
                      NoEvidence))
       \o Opt(/\ "BT-92" \in DOMAIN t /\ total_with_vat.ok /\ allowance.ok
              /\ (~existing_allowance.ok \/ existing_allowance.n = 0),
              Derived("totals", "BT-92", Dec2(allowance.n), NoLine,
                      "BT-112 minus amount after Skonto", "R-PAY-SKONTO-002", NoEvidence))
       \o Opt(HasEmpty(t, "BT-93") /\ total_with_vat.ok,
              Derived("totals", "BT-93", Dec2(total_with_vat.n), NoLine,
                      "Allowance base = total with VAT", "R-PAY-SKONTO-003", NoEvidence))
       \o Opt(HasEmpty(t, "BT-97"),
              Derived("totals", "BT-97", Word("Skonto"), NoLine,
                      "Detected Skonto in payment terms", "R-PAY-SKONTO-004", NoEvidence))
       \o Opt(HasEmpty(t, "BT-98"),
              Derived("totals", "BT-98", Word("SKONTO"), NoLine,
                      "Allowance reason code placeholder for Skonto", "R-PAY-SKONTO-005",
                      NoEvidence))
       \o Opt(HasEmpty(t, "BT-107") /\ HasSet(t, "BT-92"),
              Derived("totals", "BT-107", t["BT-92"].value, NoLine,
                      "Sum of document-level allowances", "R-TOT-ALLOW-001", NoEvidence))
       \o Opt(PaidBranch(inv),
              Derived("totals", "BT-113", Dec2(paid), NoLine,
                      IF amount_after_skonto.ok
                        THEN "Extracted amount after Skonto from totals block"
                        ELSE "Instant payment: BT-112 - BT-107",
                      IF amount_after_skonto.ok THEN "R-HDR-PAID-004" ELSE "R-HDR-PAID-002",
                      NoEvidence))
       \o Opt(DueBranch(inv),
              Derived("totals", "BT-115", Dec2(computed_due), NoLine,
                      "BT-112 - BT-113 - BT-107", "R-HDR-PAID-003", NoEvidence))

\* amount due = total with VAT when the due date lies after today
resolve_due_amount(inv, today) ==
  LET h == inv.header
      t == inv.totals
  IN Opt(/\ HasEmpty(t, "BT-115") /\ HasEmpty(t, "BT-113") /\ HasSet(t, "BT-112")
         /\ HasSet(h, "BT-9")
         /\ Truthy(parse_date_to_iso(h["BT-9"].value))
         /\ parse_date_to_iso(h["BT-9"].value).n > today,
         Derived("totals", "BT-115", t["BT-112"].value, NoLine,
                 "Due date in future and no paid amount; amount due equals total with VAT",
                 "R-TOT-DUE-001", EvidenceOf(h, "BT-9")))

\* sum of the BT-147 amounts of the lines that parse
LineAllowances(inv) ==
  SeqSum(SeqCat([i \in 1..Len(inv.lines) |->
                   IF LineNum(inv.lines[i], "BT-147").ok
                     THEN <<LineNum(inv.lines[i], "BT-147").n>> ELSE <<>>]))

treat_gross(inv) ==
  LET total_without_vat == ParseIfHas(inv.totals, "BT-109")
      doc_allowances == ParseOrZero(inv.totals, "BT-107")
      doc_charges == ParseOrZero(inv.totals, "BT-108")
      line_amounts == LineNetValues(inv)
  IN /\ ~(Or0(doc_allowances) # 0 \/ Or0(doc_charges) # 0 \/ LineAllowances(inv) # 0)
     /\ total_without_vat.ok
     /\ line_amounts # <<>>
     /\ SeqSum(line_amounts) * 1000 > total_without_vat.n * 1001

resolve_lines(inv) ==
  SeqCat([i \in 1..Len(inv.lines) |->
    LET bts == inv.lines[i].bt
        line_id == inv.lines[i].line_id
        qty == LineNum(inv.lines[i], "BT-129")
        vat_rate == LineNum(inv.lines[i], "BT-152")
        unit_price == LineNum(inv.lines[i], "BT-146")
        line_amount == LineNum(inv.lines[i], "BT-131")
        gross == treat_gross(inv) /\ vat_rate.ok /\ vat_rate.n > 0 /\ line_amount.ok
    IN Opt(gross,
           Corrected("line", "BT-131", Dec2(RoundDiv(line_amount.n * 10000, 10000 + vat_rate.n)),
                     line_id, "line amount / (1 + rate%)", "R-LINE-NETGROSS-001", NoEvidence))
       \o Opt(gross /\ unit_price.ok,
              Corrected("line", "BT-146", Dec2(RoundDiv(unit_price.n * 10000, 10000 + vat_rate.n)),
                        line_id, "unit price / (1 + rate%)", "R-LINE-NETGROSS-001", NoEvidence))
       \o Opt(gross /\ unit_price.ok,
              Corrected("line", "BT-148", Dec2(unit_price.n), line_id,
                        "Set gross price from extracted unit price", "R-LINE-NETGROSS-001",
                        NoEvidence))
       \o Opt(HasEmpty(bts, "BT-130") /\ qty.ok,
              Corrected("line", "BT-130", Word("C62"), line_id, "Defaulted unit to pieces",
                        "R-LINE-UOM-001", NoEvidence))])

\* today: datetime.utcnow().date() as a day number
phase4_resolve(inv, today) ==
  resolve_currency(inv) \o resolve_seller_country(inv) \o resolve_text_gross(inv)
  \o resolve_charges(inv) \o resolve_payment_means(inv) \o resolve_due_from_field(inv)
  \o resolve_due_from_terms(inv) \o resolve_instant(inv) \o resolve_due_amount(inv, today)
  \o resolve_lines(inv)

(***************************************************************************)
(* loader.load_azure: the initial canonical invoice.  An input is          *)
(* [fields, items, content]: fields maps the codes of the top-level fields *)
(* to [value, content, confidence], items is the Items array (one such     *)
(* mapping per line), content the full text.  The inputs of the model      *)
(* carry no PaymentDetails, Allowances & Charges or Taxes array.           *)
(***************************************************************************)
bt_registry ==
  [bt \in HeaderCodes \cup TotalCodes \cup LineCodes |->
     IF bt \in LineCodes THEN "line"
     ELSE IF bt \in {"BT-92", "BT-93", "BT-94", "BT-97", "BT-98"} THEN "allowances"
     ELSE IF bt \in {"BT-99", "BT-100", "BT-102", "BT-103", "BT-104"} THEN "charges"
     ELSE IF bt \in TotalCodes THEN "totals"
     ELSE "header"]

group_for_bt(registry, bt) ==
  IF registry[bt] \in {"totals", "allowances", "charges"} THEN "totals" ELSE "header"

F(v) == [value |-> v, content |-> None, confidence |-> 0]

\* loader._extract_value and the record written from one field
LoadedRecord(bt, field) ==
  [bt |-> bt, value |-> field.value,
   raw_value |-> IF field.content = None THEN field.value ELSE field.content,
   status |-> IF IsEmpty(field.value) THEN "missing" ELSE "ok",
   source |-> "azure", confidence |-> field.confidence, derivation |-> "",
   evidence |-> "path", rule_id |-> ""]

load_azure(input, registry) ==
  LET header_codes == {bt \in DOMAIN registry : group_for_bt(registry, bt) # "totals"}
      totals_codes == {bt \in DOMAIN registry : group_for_bt(registry, bt) = "totals"}
      line_codes == {bt \in DOMAIN registry : registry[bt] = "line"}
      Load(codes, fields) ==
        [bt \in codes |-> IF bt \in DOMAIN fields THEN LoadedRecord(bt, fields[bt])
                          ELSE empty_btvalue(bt)]
  IN [header |-> Load(header_codes, input.fields),
      lines |-> [idx \in 1..Len(input.items) |->
                   [line_id |-> idx, bt |-> Load(line_codes, input.items[idx])]],
      totals |-> Load(totals_codes, input.fields),
      raw |-> input.content,
      patches |-> <<>>]

(***************************************************************************)
(* Inputs of the model                                                     *)
(***************************************************************************)
\* day numbers: the issue date, and the dates a run can see as today
IssueDay == 10
Days == {5, 40}

NoFields == [bt \in {} |-> F(None)]
NoValues == [bt \in {} |-> None]

\* a line item: net amount, VAT rate, unit price, quantity, line allowance
Item(net, rate, price, qty, allowance) ==
  [bt \in {"BT-131", "BT-152", "BT-146", "BT-129", "BT-147"} |->
     CASE bt = "BT-131" -> F(net)
       [] bt = "BT-152" -> F(rate)
       [] bt = "BT-146" -> F(price)
       [] bt = "BT-129" -> F(qty)
       [] bt = "BT-147" -> F(allowance)]

\* the top-level fields that hold a value
Fields(values) ==
  [bt \in {c \in DOMAIN values : values[c] # None} |-> F(values[bt])]

Input(values, items, content) == [fields |-> Fields(values), items |-> items, content |-> content]

\* line items the inputs are built from
NetItem(net) == Item(net, Float(1900), None, None, None)

ItemChoices ==
  {NetItem(Float(10000)),
   Item(None, Float(1900), DecRaw(2500), Float(200), None),
   Item(Float(10000), Dec2(0), None, Float(100), Float(1000))}

ItemSeqs == UNION {[1..n -> ItemChoices] : n \in 0..MaxLines}

Days14 == [w |-> "tage", n |-> 14]
Skonto2 == [w |-> "%skonto", n |-> 200]
Date12 == [w |-> "date", n |-> 12]

\* header fields of the analysed document
HeaderChoices ==
  { "BT-2" :> Iso(IssueDay),
    "BT-2" :> Dmy(IssueDay) @@ "BT-5" :> Text(<<W("EUR"), W("EUR")>>) @@ "BT-81" :> Word("Vorkasse"),
    "BT-2" :> Iso(IssueDay) @@ "BT-20" :> Text(<<Days14, Skonto2>>) @@ "BT-38" :> Plz(10115)
      @@ "BT-31" :> Text(<<W("UST-ID"), W("DE123")>>),
    "BT-9" :> Dmy(30) @@ "BT-72" :> Text(<<Date12, Date12>>) @@ "BT-55" :> Word("Deutschland")
      @@ "BT-53" :> DPlz(80331) }

\* document totals of the analysed document
TotalsChoices ==
  { NoValues,
    "BT-106" :> Dec2(20000),
    "BT-106" :> Dec2(15002) @@ "BT-109" :> Float(15000) @@ "BT-110" :> Float(2850)
      @@ "BT-112" :> Float(17850),
    "BT-107" :> Float(0) @@ "BT-92" :> Dec2(500) @@ "BT-112" :> DecRaw(11900),
    "BT-112" :> Float(11900) @@ "BT-113" :> Float(11900) @@ "BT-115" :> Word("n/a"),
    "BT-112" :> Float(11900) @@ "BT-113" :> Word("n/a"),
    "BT-109" :> DecRaw(10000) @@ "BT-110" :> Dec2(1900) @@ "BT-116" :> DecRaw(5000) }

\* the text of the analysed document, line by line
ContentChoices ==
  { <<>>,
    <<CL("Versandkosten", TRUE, 500)>>,
    <<CL("Gesamtbetrag", TRUE, 17850), CL("PayPal", FALSE, 0)>> }

\* documents paid at once, with a discount for early payment (Skonto) in the terms
Eur10 == [w |-> "(eur)", n |-> 1000]

PrepaidHeaders ==
  { "BT-2" :> Iso(IssueDay),
    "BT-2" :> Iso(IssueDay) @@ "BT-81" :> Word("Vorkasse") @@ "BT-20" :> Text(<<Skonto2, Eur10>>)
      @@ "BT-53" :> Plz(7919),
    "BT-2" :> Iso(IssueDay) @@ "BT-20" :> Text(<<W("Vorkasse"), Days14, Skonto2>>) }

PrepaidTotals ==
  { NoValues,
    "BT-106" :> Dec2(20000) @@ "BT-107" :> Word("n/a"),
    "BT-112" :> Float(11900) @@ "BT-113" :> Float(0) @@ "BT-94" :> Float(0),
    "BT-109" :> Float(10000),
    "BT-109" :> Dec2(15000),
    "BT-106" :> Float(0) }

\* a line whose amounts include 19% VAT
GrossItem == Item(Float(11900), Float(1900), Float(11900), Float(100), None)

PrepaidItemSeqs == {<<>>, <<GrossItem>>, <<NetItem(Float(10000)), NetItem(Float(5000))>>}

PrepaidContents == {<<>>, <<CL(":Versandkosten", TRUE, 500)>>}

PrepaidInputs ==
  {Input(h @@ t, items, content) :
     h \in PrepaidHeaders, t \in PrepaidTotals, items \in PrepaidItemSeqs,
     content \in PrepaidContents}

Inputs ==
  {Input(h @@ t, items, content) :
     h \in HeaderChoices, t \in TotalsChoices, items \in ItemSeqs, content \in ContentChoices}
  \cup PrepaidInputs

(***************************************************************************)
(* pipeline.run_pipeline: the phase sequence and the application of the    *)
(* patches of each phase                                                   *)
(***************************************************************************)
\* an orchestrator that validates before it resolves in the second pass
PHASES_validate_early ==
  <<"normalize", "derive", "validate", "resolve", "derive", "validate", "resolve">>

PHASES == <<"normalize", "derive", "validate", "resolve", "derive", "resolve", "validate">>

\* number of the current phase call, counted over the runs
CallNo == (run - 1) * Len(PHASES) + step

\* the loop over the patches of a phase is exhausted: next phase, or the end
Advance ==
  IF step < Len(PHASES) THEN pc' = "call" /\ step' = step + 1
  ELSE pc' = "done" /\ step' = step

\* a phase function returned ps
Begin(phase, ps) ==
  /\ trace' = Append(trace, phase)
  /\ snap' = invoice
  /\ produced' = ps
  /\ pending' = ps
  /\ IF ps # <<>> THEN pc' = "apply" /\ step' = step ELSE Advance
  /\ UNCHANGED <<invoice, prev, last, origin, run, calls, arg, result>>

\* a phase function raised: the run ends with the exception
Raise(phase) ==
  /\ trace' = Append(trace, phase)
  /\ pc' = "error"
  /\ snap' = invoice
  /\ produced' = <<>>
  /\ pending' = <<>>
  /\ UNCHANGED <<invoice, step, prev, last, origin, run, calls, arg, result>>

Normalize ==
  /\ pc = "call" /\ PHASES[step] = "normalize"
  /\ \E ps \in phase1_results(invoice) : Begin("normalize", ps)

Derive ==
  /\ pc = "call" /\ PHASES[step] = "derive"
  /\ Begin("derive", phase2_derive(invoice))

Validate ==
  /\ pc = "call" /\ PHASES[step] = "validate"
  /\ ~phase3_raises(invoice)
  /\ Begin("validate", phase3_validate(invoice))

ValidateRaises ==
  /\ pc = "call" /\ PHASES[step] = "validate"
  /\ phase3_raises(invoice)
  /\ Raise("validate")

Resolve ==
  /\ pc = "call" /\ PHASES[step] = "resolve"
  /\ ~phase4_raises(invoice)
  /\ \E today \in Days : Begin("resolve", phase4_resolve(invoice, today))

ResolveRaises ==
  /\ pc = "call" /\ PHASES[step] = "resolve"
  /\ phase4_raises(invoice)
  /\ Raise("resolve")

\* for patch in <phase>(invoice): apply_patch(invoice, patch)
ApplyPatch ==
  /\ pc = "apply"
  /\ prev' = invoice
  /\ last' = <<Head(pending)>>
  /\ invoice' = apply_patch(invoice, Head(pending))
  /\ pending' = Tail(pending)
  /\ origin' = IF Resolves(invoice, Head(pending)) THEN Append(origin, CallNo) ELSE origin
  /\ IF Tail(pending) # <<>> THEN pc' = "apply" /\ step' = step ELSE Advance
  /\ UNCHANGED <<produced, snap, run, calls, trace, arg, result>>

\* the phase sequence is run again on the invoice it has left
Rerun ==
  /\ pc = "done" /\ run < MaxRuns
  /\ run' = run + 1
  /\ step' = 1
  /\ pc' = "call"
  /\ UNCHANGED <<invoice, pending, produced, snap, prev, last, origin, calls, trace, arg, result>>

StartWith(inv, at) ==
  /\ invoice = inv
  /\ pc = at
  /\ step = 1
  /\ pending = <<>>
  /\ produced = <<>>
  /\ snap = inv
  /\ prev = inv
  /\ last = <<>>
  /\ origin = <<>>
  /\ run = 1
  /\ calls = 0
  /\ trace = <<>>

\* run_pipeline on one analysed document
Init ==
  /\ \E input \in Inputs : StartWith(load_azure(input, bt_registry), "call")
  /\ arg = <<>>
  /\ result = <<>>

Next ==
  \/ Normalize
  \/ Derive
  \/ Validate
  \/ ValidateRaises
  \/ Resolve
  \/ ResolveRaises
  \/ ApplyPatch

Spec == Init /\ [][Next]_vars

(***************************************************************************)
(* A direct caller of the store: apply_patch called with patches of any    *)
(* origin (an enrichment step may name codes and lines the invoice lacks)  *)
(***************************************************************************)
\* what a patch can carry besides its target
PatchBodies ==
  {[new_value |-> Word("EUR"), status |-> "derived", source |-> "derived",
    derivation |-> "Detected currency", rule_id |-> "R-A", evidence |-> "full_text"],
   [new_value |-> Dec2(15000), status |-> "corrected", source |-> "rule",
    derivation |-> "Normalized amount format", rule_id |-> "R-B", evidence |-> NoEvidence]}

\* the targets a patch can name: known and unknown codes, matching and missing lines
PatchTargets ==
  {<<scope, bt, NoLine>> : scope \in {"header", "totals"},
                          bt \in {"BT-5", "BT-106", "BT-131", UnknownCode}}
  \cup {<<"line", bt, line_id>> : bt \in {"BT-5", "BT-131", UnknownCode},
                                  line_id \in {1, MaxLines + 1}}

PatchChoices ==
  {Patch(target[1], target[2], body.new_value, target[3], body.status, body.source,
         body.derivation, body.rule_id, body.evidence) :
     target \in PatchTargets, body \in PatchBodies}

StoreInputs ==
  {Input("BT-5" :> Word("EUR") @@ "BT-106" :> Dec2(20000), items, <<>>) :
     items \in [1..MaxLines -> {NetItem(Float(10000))}] \cup {<<>>}}

InitStore ==
  /\ \E input \in StoreInputs : StartWith(load_azure(input, bt_registry), "store")
  /\ arg = <<>>
  /\ result = <<>>

\* one call apply_patch(invoice, patch)
StoreApply ==
  /\ pc = "store" /\ calls < MaxCalls
  /\ \E patch \in PatchChoices :
       /\ prev' = invoice
       /\ last' = <<patch>>
       /\ invoice' = apply_patch(invoice, patch)
  /\ calls' = calls + 1
  /\ UNCHANGED <<pc, step, pending, produced, snap, origin, run, trace, arg, result>>

NextStore == StoreApply

SpecStore == InitStore /\ [][NextStore]_vars

(***************************************************************************)
(* The phase sequence run again on the invoice a run has left              *)
(***************************************************************************)
NextRerun == Next \/ Rerun

SpecRerun == Init /\ [][NextRerun]_vars

(***************************************************************************)
(* The amount rule of phase1_normalize on one stored text                  *)
(* (rules_engine.py lines 500-518): parsed = parse_decimal(value) and,     *)
(* unless that is None, norm = f"{parsed:.2f}"                             *)
(***************************************************************************)
\* the characters the texts are built from: "x" stands for any character that is
\* no digit, separator or sign
Alphabet == {"1", "7", ",", ".", "-", "x"}

European == <<"1", ".", "9", "4", "7", ",", "7", "5">>
American == <<"1", ",", "9", "4", "7", ".", "7", "5">>

ExampleTexts ==
  {European, American, <<"n", "/", "a">>, <<"1", "9", ",", "5", " ", "E", "U", "R">>,
   <<"-", "1", ".", "2", "3", "4", ",", "5", "0">>}

Texts == UNION {[1..n -> Alphabet] : n \in 0..MaxLen} \cup ExampleTexts

InitParse ==
  /\ StartWith(load_azure(Input(NoValues, <<>>, <<>>), bt_registry), "parse")
  /\ arg \in Texts
  /\ result = <<>>

NormalizeAmount ==
  /\ pc = "parse" /\ result = <<>>
  /\ LET parsed == parse_decimal_text(arg)
     IN result' = <<[parsed |-> parsed,
                     norm |-> IF parsed.ok THEN format_2f(parsed) ELSE <<>>]>>
  /\ UNCHANGED <<invoice, pc, step, pending, produced, snap, prev, last, origin, run, calls,
                 trace, arg>>

NextParse == NormalizeAmount

SpecParse == InitParse /\ [][NextParse]_vars

(***************************************************************************)
(* The subdivision of a buyer's post code: _de_subdivision_from_postcode   *)
(* on the code, and one phase2_derive call, its patches applied, on a      *)
(* document that holds the code as BT-53                                   *)
(***************************************************************************)
\* the first and last code of every range of the table and their neighbours
BoundaryCodes ==
  UNION {{DE_POSTCODE_RANGES[i][1] - 1, DE_POSTCODE_RANGES[i][1],
          DE_POSTCODE_RANGES[i][2], DE_POSTCODE_RANGES[i][2] + 1} :
           i \in DOMAIN DE_POSTCODE_RANGES}

PostCodes == UNION {{Plz(n), DPlz(n)} : n \in BoundaryCodes \cup {0, 10115, 99999}}

InitPost ==
  /\ arg \in PostCodes
  /\ StartWith(load_azure(Input("BT-53" :> arg, <<>>, <<>>), bt_registry), "post")
  /\ result = <<>>

DeriveSubdivision ==
  /\ pc = "post" /\ result = <<>>
  /\ result' = <<de_subdivision_from_postcode(arg)>>
  /\ invoice' = ApplyAll(invoice, phase2_derive(invoice))
  /\ UNCHANGED <<pc, step, pending, produced, snap, prev, last, origin, run, calls, trace, arg>>

NextPost == DeriveSubdivision

SpecPost == InitPost /\ [][NextPost]_vars

(***************************************************************************)
(* The optional enrichment step of run_pipeline (pipeline.py:40-46) in     *)
(* front of the phase sequence. arg holds the environment of the run:      *)
(* whether LEXINVO_USE_GPT asks for the step, and whether OPENAI_API_KEY   *)
(* is set                                                                  *)
(***************************************************************************)
EnrichSettings ==
  { [use_gpt |-> FALSE, api_key |-> FALSE],
    [use_gpt |-> TRUE, api_key |-> FALSE],
    [use_gpt |-> TRUE, api_key |-> TRUE] }

\* what the model answers when it is asked: no patch, or one for the invoice number
LlmPatches ==
  { <<>>,
    <<[type |-> "patch", scope |-> "header", bt |-> "BT-1", new_value |-> Word("R-1")]>> }

\* gpt_enrich.enrich_with_gpt returns a pair: the list of patches and the model's output
enrich_with_gpt(setting, llm_patches) ==
  IF ~setting.api_key
    THEN <<[type |-> "list", items |-> <<>>], [type |-> "dict", items |-> <<>>]>>
    ELSE <<[type |-> "list", items |-> llm_patches], [type |-> "dict", items |-> llm_patches]>>

InitEnrich ==
  /\ \E input \in Inputs : StartWith(load_azure(input, bt_registry), "enrich")
  /\ arg \in EnrichSettings
  /\ result = <<>>

\* use_gpt is false: the loop of line 45 is not entered
EnrichSkipped ==
  /\ pc = "enrich" /\ ~arg.use_gpt
  /\ pc' = "call"
  /\ UNCHANGED <<invoice, step, pending, produced, snap, prev, last, origin, run, calls, trace,
                 arg, result>>

\* for patch in enrich_with_gpt(...): apply_patch(invoice, patch): the loop runs over the
\* two members of the pair, and apply_patch reads patch.scope of the first, a list
EnrichRaises ==
  /\ pc = "enrich" /\ arg.use_gpt
  /\ \E llm_patches \in LlmPatches :
       /\ enrich_with_gpt(arg, llm_patches)[1].type # "patch"
       /\ result' = <<enrich_with_gpt(arg, llm_patches)>>
  /\ pc' = "error"
  /\ UNCHANGED <<invoice, step, pending, produced, snap, prev, last, origin, run, calls, trace,
                 arg>>

NextEnrich == EnrichSkipped \/ EnrichRaises \/ Next

SpecEnrich == InitEnrich /\ [][NextEnrich]_vars

(***************************************************************************)
(* rules_engine.run_all_phases beside the orchestrator: arg keeps the      *)
(* loaded invoice, and when run_pipeline has ended, the patches that       *)
(* run_all_phases returns for the loaded invoice are applied to it in      *)
(* order                                                                   *)
(***************************************************************************)
\* the lists run_all_phases can return: every phase is called on the same invoice
run_all_phases(inv) ==
  {normalized \o phase2_derive(inv) \o phase3_validate(inv) \o phase4_resolve(inv, today)
     \o phase2_derive(inv) \o phase3_validate(inv) :
       normalized \in phase1_results(inv), today \in Days}

InitAll ==
  /\ \E input \in Inputs : StartWith(load_azure(input, bt_registry), "call")
  /\ arg = invoice
  /\ result = <<>>

RunAllPhases ==
  /\ pc = "done" /\ result = <<>>
  /\ IF phase3_raises(arg) \/ phase4_raises(arg)
       THEN result' = <<[raised |-> TRUE, invoice |-> arg]>>
       ELSE \E patches \in run_all_phases(arg) :
              result' = <<[raised |-> FALSE, invoice |-> ApplyAll(arg, patches)]>>
  /\ UNCHANGED <<invoice, pc, step, pending, produced, snap, prev, last, origin, run, calls,
                 trace, arg>>

NextAll == Next \/ RunAllPhases

SpecAll == InitAll /\ [][NextAll]_vars

(***************************************************************************)
(* Properties of the store (btstore.apply_patch)                           *)
(***************************************************************************)
\* the latest apply_patch call and the invoice it was made on
Called == last # <<>>
LastPatch == last[1]

\* the lines of an invoice whose line id is the given one
LinesWithId(inv, line_id) == {i \in 1..Len(inv.lines) : inv.lines[i].line_id = line_id}

\* the patch names no record of the invoice
NoTarget(inv, patch) ==
  \/ patch.scope = "header" /\ patch.bt \notin DOMAIN inv.header
  \/ patch.scope = "totals" /\ patch.bt \notin DOMAIN inv.totals
  \/ patch.scope \notin {"header", "totals"} /\ LinesWithId(inv, patch.line_id) = {}
  \/ /\ patch.scope \notin {"header", "totals"}
     /\ \E i \in LinesWithId(inv, patch.line_id) : patch.bt \notin DOMAIN inv.lines[i].bt

\* C1: apply_patch is a silent no-op when the target does not resolve: for a patch
\* whose code is absent from the header/totals mapping of its scope, or whose line id
\* matches no line, or whose code is absent from the matched line, the call raises
\* nothing, the patch log keeps its length and every field record is unchanged.
C1_SilentNoOp ==
  Called /\ NoTarget(prev, LastPatch) =>
    /\ pc # "error"
    /\ Len(invoice.patches) = Len(prev.patches)
    /\ invoice.header = prev.header
    /\ invoice.totals = prev.totals
    /\ invoice.lines = prev.lines

\* a patch for a line id no line has is dropped after a patch that was applied
C1_Witness ==
  /\ pc = "store" /\ calls = 2
  /\ LastPatch.scope = "line" /\ LastPatch.line_id = MaxLines + 1
  /\ invoice.lines # <<>>
  /\ NoTarget(prev, LastPatch)
  /\ Len(invoice.patches) = 1

\* the value the record named by the patch holds in the invoice
ValueAt(inv, patch) ==
  IF patch.scope = "header" THEN inv.header[patch.bt].value
  ELSE IF patch.scope = "totals" THEN inv.totals[patch.bt].value
  ELSE inv.lines[CHOOSE i \in LinesWithId(inv, patch.line_id) : TRUE].bt[patch.bt].value

\* C2: the patch log is append-only and counts resolved applications: every
\* apply_patch call whose target resolves appends exactly one entry at the end of the
\* log, also when the new value equals the old value; the entry's old_value is the
\* value the record held immediately before the call and its new_value is the
\* patch's value; no earlier entry is modified or removed.
C2_AppendOnlyLog ==
  Called /\ ~NoTarget(prev, LastPatch) =>
    /\ Len(invoice.patches) = Len(prev.patches) + 1
    /\ SubSeq(invoice.patches, 1, Len(prev.patches)) = prev.patches
    /\ invoice.patches[Len(invoice.patches)].old_value = ValueAt(prev, LastPatch)
    /\ invoice.patches[Len(invoice.patches)].new_value = LastPatch.new_value
    /\ invoice.patches[Len(invoice.patches)].bt = LastPatch.bt
    /\ invoice.patches[Len(invoice.patches)].scope = LastPatch.scope

\* a resolved patch that brings the value the record already holds is logged
C2_Witness ==
  /\ pc = "store" /\ Called
  /\ ~NoTarget(prev, LastPatch)
  /\ ValueAt(prev, LastPatch) = LastPatch.new_value
  /\ Len(invoice.patches) = 2

\* the record with the six fields of the patch written over it
Written(record, patch) ==
  [bt |-> record.bt, value |-> patch.new_value, raw_value |-> record.raw_value,
   status |-> patch.status, source |-> patch.source, confidence |-> record.confidence,
   derivation |-> patch.derivation, evidence |-> patch.evidence, rule_id |-> patch.rule_id]

\* the mapping equals the earlier one but for the record the patch names
MappingAfter(now, before, bt, patch) ==
  /\ DOMAIN now = DOMAIN before
  /\ \A c \in DOMAIN now : now[c] = IF c = bt THEN Written(before[c], patch) ELSE before[c]

\* C3: a resolved apply_patch overwrites exactly value, status, source, derivation,
\* rule_id and evidence of the one target record with the patch's values,
\* unconditionally, and leaves that record's raw_value, confidence and code, and
\* every other record of the invoice, unchanged; so each field holds the value of
\* the last resolved patch that targeted it.
C3_OverwriteFrame ==
  Called /\ ~NoTarget(prev, LastPatch) =>
    /\ ValueAt(invoice, LastPatch) = LastPatch.new_value
    /\ invoice.raw = prev.raw
    /\ IF LastPatch.scope = "header"
         THEN /\ MappingAfter(invoice.header, prev.header, LastPatch.bt, LastPatch)
              /\ invoice.totals = prev.totals /\ invoice.lines = prev.lines
       ELSE IF LastPatch.scope = "totals"
         THEN /\ MappingAfter(invoice.totals, prev.totals, LastPatch.bt, LastPatch)
              /\ invoice.header = prev.header /\ invoice.lines = prev.lines
       ELSE /\ invoice.header = prev.header /\ invoice.totals = prev.totals
            /\ Len(invoice.lines) = Len(prev.lines)
            /\ \A i \in 1..Len(prev.lines) :
                 /\ invoice.lines[i].line_id = prev.lines[i].line_id
                 /\ IF i \in LinesWithId(prev, LastPatch.line_id)
                      THEN MappingAfter(invoice.lines[i].bt, prev.lines[i].bt,
                                        LastPatch.bt, LastPatch)
                      ELSE invoice.lines[i].bt = prev.lines[i].bt

\* a record written by one patch is overwritten by a later patch of another source
C3_Witness ==
  /\ pc = "store" /\ calls = 2
  /\ ~NoTarget(prev, LastPatch)
  /\ Len(prev.patches) = 1
  /\ prev.patches[1].bt = LastPatch.bt /\ prev.patches[1].scope = LastPatch.scope
  /\ prev.patches[1].line_id = LastPatch.line_id
  /\ prev.patches[1].new_value # LastPatch.new_value
  /\ ValueAt(invoice, LastPatch) = LastPatch.new_value

(***************************************************************************)
(* Properties of the phases and of the orchestrator                        *)
(***************************************************************************)
\* the patches of a list that carry the given rule id
ByRule(ps, rule_id) == {i \in DOMAIN ps : ps[i].rule_id = rule_id}

\* the amount a totals field holds, in cents
Cents(inv, bt) == parse_decimal(inv.totals[bt].value).n

\* the rules whose inputs another rule of the same phase can patch take those inputs
\* from the invoice inv
ReadsSnapshot(inv, ps) ==
  /\ \A i \in ByRule(ps, "R-TOT-GRAND-001") :
       /\ ~IsEmpty(inv.totals["BT-106"].value)
       /\ ps[i].new_value.n = Cents(inv, "BT-106") - Or0(ParseOrZero(inv.totals, "BT-107"))
                                + Or0(ParseOrZero(inv.totals, "BT-108"))
  /\ \A i \in ByRule(ps, "R-TOT-GRAND-002") :
       /\ ~IsEmpty(inv.totals["BT-109"].value) /\ ~IsEmpty(inv.totals["BT-110"].value)
       /\ ps[i].new_value.n = Cents(inv, "BT-109") + Cents(inv, "BT-110")
  /\ \A i \in ByRule(ps, "R-TOT-VAT-001") : ~IsEmpty(inv.totals["BT-109"].value)
  /\ \A i \in ByRule(ps, "R-TOT-CHECK-001") :
       ps[i].new_value.n = Cents(inv, "BT-106") - Or0(ParseOrZero(inv.totals, "BT-107"))
                             + Or0(ParseOrZero(inv.totals, "BT-108"))
  /\ \A i \in ByRule(ps, "R-TOT-CHECK-002") :
       ps[i].new_value.n = Cents(inv, "BT-109") + Cents(inv, "BT-110")

\* C4: each phase function is pure with respect to the invoice: a call leaves header,
\* totals, lines and the patch log unchanged, and every rule inside one call reads the
\* invoice as it was when the call started, so no rule observes a patch produced
\* earlier or later in the same call.
C4_PhasesPure ==
  [][pc = "call" => /\ invoice' = invoice
                    /\ (pc' # "error" => ReadsSnapshot(invoice, produced'))]_vars

\* a derive call has returned the net sum (BT-106) and, as the invoice it was called
\* on had no net sum, no net total (BT-109), although that field is empty too
C4_Witness ==
  /\ pc = "apply" /\ pending = produced /\ invoice = snap
  /\ trace[Len(trace)] = "derive"
  /\ ByRule(produced, "R-TOT-SUMS-001") # {}
  /\ IsEmpty(snap.totals["BT-109"].value)
  /\ ByRule(produced, "R-TOT-GRAND-001") = {}

\* the log entry written for a patch
EntryOf(entry, patch) ==
  /\ entry.bt = patch.bt /\ entry.scope = patch.scope /\ entry.line_id = patch.line_id
  /\ entry.new_value = patch.new_value /\ entry.rule_id = patch.rule_id

\* C5: the orchestrator runs the phases in the order normalize, derive, validate,
\* resolve, derive, resolve, validate, and applies every patch of a phase, one at a
\* time in the order the phase produced them, before the next phase is called; so in
\* the patch log all entries of an earlier step precede all entries of a later step
\* and entries of one step keep their production order.
C5_PhaseOrder ==
  LET order == <<"normalize", "derive", "validate", "resolve", "derive", "resolve", "validate">>
      applied == Len(produced) - Len(pending)
  IN /\ Len(trace) <= Len(order) /\ trace = SubSeq(order, 1, Len(trace))
     /\ pc \in {"call", "done"} => pending = <<>>
     /\ pc = "call" => Len(trace) = step - 1
     /\ pc = "done" => Len(trace) = Len(order)
     /\ Len(origin) = Len(invoice.patches)
     /\ \A i, j \in DOMAIN origin : i < j => origin[i] <= origin[j]
     /\ pending = SubSeq(produced, applied + 1, Len(produced))
     /\ Len(invoice.patches) = Len(snap.patches) + applied
     /\ \A i \in 1..applied :
          /\ EntryOf(invoice.patches[Len(snap.patches) + i], produced[i])
          /\ origin[Len(snap.patches) + i] = Len(trace)

\* a finished run whose log holds entries of the first derive call and of the second
\* resolve call
C5_Witness ==
  /\ pc = "done"
  /\ \E i, j \in DOMAIN origin : origin[i] = 2 /\ origin[j] = 6
  /\ Len(produced) >= 1

\* the phase function called last
LastCalled == IF trace = <<>> THEN "" ELSE trace[Len(trace)]

\* C6: idempotence of the full sequence: re-running normalize, derive, validate,
\* resolve, derive, resolve, validate (patches applied after each phase) on an invoice
\* the sequence has already been run on produces zero patches: the patch log gains
\* no entry after the first run.
C6_RerunAddsNothing ==
  \A i \in DOMAIN origin : origin[i] <= 7

\* every line has a net amount and the lines share one VAT rate
ChainDerivable(inv) ==
  /\ inv.lines # <<>>
  /\ \A i \in 1..Len(inv.lines) :
       LineNum(inv.lines[i], "BT-131").ok /\ LineNum(inv.lines[i], "BT-152").ok
  /\ Cardinality(RateSet(inv)) = 1

GrandTotalChain == {"BT-106", "BT-109", "BT-110", "BT-112"}

\* C7: the orchestrator's sequence brings the grand-total chain to full convergence:
\* after the seven steps, whenever net sum, net total, VAT total and gross total are
\* derivable from the line net amounts and a single shared VAT rate, all of them are
\* filled, so one more derive call returns no patch for BT-106, BT-109, BT-110, BT-112.
C7_ChainConverges ==
  pc = "done" /\ ChainDerivable(invoice) =>
    /\ \A bt \in GrandTotalChain : ~IsEmpty(invoice.totals[bt].value)
    /\ \A i \in DOMAIN phase2_derive(invoice) : phase2_derive(invoice)[i].bt \notin GrandTotalChain

\* C8: the derivation phase fills empty fields only: every patch returned by
\* phase2_derive targets a field whose value is empty in the invoice the phase was
\* called on, never a field that already holds a value (the currency and
\* delivery-date fields and a field holding numeric zero included).
C8_DeriveFillsOnlyEmpty ==
  LastCalled = "derive" =>
    \A i \in DOMAIN produced : IsEmpty(ValueAt(snap, produced[i]))

CheckedTotals == {"BT-106", "BT-109", "BT-112", "BT-115", "BT-116"}

\* C9: validation uses a fixed absolute tolerance of 0.02: phase3_validate returns a
\* patch for a checked total only when the stored value is present and differs from
\* the recomputed value by more than 0.02 (a stored value within 0.02 gets no patch);
\* every patch carries the recomputed value with two decimals and status wrong_math.
C9_FixedTolerance ==
  LastCalled = "validate" =>
    \A i \in DOMAIN produced :
      /\ produced[i].scope = "totals" /\ produced[i].bt \in CheckedTotals
      /\ produced[i].status = "wrong_math"
      /\ produced[i].new_value.k = "dec2"
      /\ ~IsEmpty(snap.totals[produced[i].bt].value)
      /\ parse_decimal(snap.totals[produced[i].bt].value).ok
      /\ Abs(Cents(snap, produced[i].bt) - produced[i].new_value.n) > 2

\* the sum of the net amounts (BT-131) of the first i lines, in cents
RECURSIVE NetSum(_, _)
NetSum(lines, i) ==
  IF i = 0 THEN 0
  ELSE NetSum(lines, i - 1)
       + (IF LineNum(lines[i], "BT-131").ok THEN LineNum(lines[i], "BT-131").n ELSE 0)

\* C10: when the stored net-sum total (BT-106) differs from the sum of the lines' net
\* amounts (BT-131) by more than 0.02, applying the patches of one validation call
\* sets BT-106 to the line sum with status wrong_math (stored 200.00 with line sum
\* 150.00 becomes 150.00).
C10_NetSumOverwritten ==
  LET stored == parse_decimal(snap.totals["BT-106"].value)
      line_sum == NetSum(snap.lines, Len(snap.lines))
  IN (/\ LastCalled = "validate" /\ pc \in {"call", "done"}
      /\ \E i \in 1..Len(snap.lines) : LineNum(snap.lines[i], "BT-131").ok
      /\ stored.ok /\ Abs(stored.n - line_sum) > 2)
     => /\ invoice.totals["BT-106"].value = Dec2(line_sum)
        /\ invoice.totals["BT-106"].status = "wrong_math"

\* the first validation call has replaced a stored net sum of 200.00 by the line sum
\* 150.00
C10_Witness ==
  /\ pc = "call" /\ LastCalled = "validate"
  /\ snap.totals["BT-106"].value = Dec2(20000)
  /\ NetSum(snap.lines, Len(snap.lines)) = 15000
  /\ invoice.totals["BT-106"].value = Dec2(15000)
  /\ invoice.totals["BT-106"].status = "wrong_math"

\* the records of an invoice: header, totals and the fields of every line
Records(inv) ==
  {inv.header[bt] : bt \in DOMAIN inv.header}
  \cup {inv.totals[bt] : bt \in DOMAIN inv.totals}
  \cup UNION {{inv.lines[i].bt[bt] : bt \in DOMAIN inv.lines[i].bt} : i \in 1..Len(inv.lines)}

\* C11: field-value invariant in every reachable state of a run (after ingestion and
\* after every applied patch of every phase): a record has status missing if and only
\* if its value is empty (None or the empty string); every record with another status
\* holds a non-empty value.
C11_MissingIffEmpty ==
  \A record \in Records(invoice) : record.status = "missing" <=> IsEmpty(record.value)

\* the field holds a text that is no number
Unparseable(inv, bt) ==
  ~IsEmpty(inv.totals[bt].value) /\ ~parse_decimal(inv.totals[bt].value).ok

\* the rules that take the allowance sum (BT-107) and the charge sum (BT-108) into a total
AllowanceRules == {"R-TOT-GRAND-001", "R-TOT-GRAND-005", "R-TOT-CHECK-001", "R-TOT-CHECK-003"}

\* C12: an unparseable amount is treated as unknown, never as zero: when the stored text
\* of the allowance sum (BT-107) or charge sum (BT-108) is non-empty but fails numeric
\* parsing, derive and validate do not compute or correct the net total (BT-109), the
\* amount due (BT-115) or the taxable base (BT-116) as if the allowance or charge were 0.
C12_UnparseableIsUnknown ==
  (/\ LastCalled \in {"derive", "validate"}
   /\ Unparseable(snap, "BT-107") \/ Unparseable(snap, "BT-108"))
  => \A i \in DOMAIN produced :
       /\ produced[i].rule_id \notin AllowanceRules
       /\ produced[i].rule_id = "R-TOT-TAXABLE-001" => HasSet(snap.totals, "BT-109")

(***************************************************************************)
(* Properties of parse_decimal                                             *)
(***************************************************************************)
\* the positions of the separators of a text, and the last of them (0 for none)
Separators(text) == {i \in DOMAIN text : text[i] \in {",", "."}}

LastSeparator(text) == IF Separators(text) = {} THEN 0 ELSE Max(Separators(text))

\* the text reads as a number whose decimal separator is its last separator: it has
\* a digit, the decimal separator occurs once, and a minus sign stands before every
\* digit and before the decimal separator (other characters are passed over)
NumericForm(text) ==
  LET decimal == IF LastSeparator(text) = 0 THEN "" ELSE text[LastSeparator(text)]
  IN /\ \E i \in DOMAIN text : IsDigit(text[i])
     /\ \A i \in Separators(text) : text[i] = decimal => i = LastSeparator(text)
     /\ \A i \in DOMAIN text :
          text[i] = "-" =>
            \A j \in 1..(i - 1) : ~IsDigit(text[j]) /\ text[j] \notin {"-", decimal}

\* the digits after the last separator
FractionDigits(text) ==
  IF LastSeparator(text) = 0 THEN 0
  ELSE Cardinality({i \in DOMAIN text : i > LastSeparator(text) /\ IsDigit(text[i])})

\* a text of digits, one point and exactly two digits after it
TwoDecimals(text) ==
  /\ Len(text) >= 4
  /\ text[Len(text) - 2] = "."
  /\ \A i \in DOMAIN text :
       i # Len(text) - 2 => IsDigit(text[i]) \/ (i = 1 /\ text[i] = "-")
  /\ IsDigit(text[Len(text) - 3])

\* C13: parse_decimal picks as decimal separator whichever of ',' and '.' occurs last
\* in the text and treats the other as a thousands separator, so '1.947,75' and
\* '1,947.75' both give 1947.75; text that matches no numeric form gives None;
\* normalization re-renders a parsed monetary amount with exactly two decimal digits.
C13_LastSeparatorIsDecimal ==
  pc = "parse" /\ result # <<>> =>
    LET parsed == result[1].parsed
        norm == result[1].norm
    IN /\ parsed.ok <=> NumericForm(arg)
       /\ parsed.ok =>
            /\ parsed.m = DigitsValue(SelectSeq(arg, IsDigit))
            /\ parsed.s = FractionDigits(arg)
            /\ parsed.neg = Has(arg, "-")
            /\ TwoDecimals(norm)
            /\ parse_decimal_text(norm).ok
            /\ parse_decimal_text(norm).s = 2
            /\ parsed.s <= 2 => parse_decimal_text(norm).m = parsed.m * Pow10(2 - parsed.s)
       /\ arg \in {European, American} =>
            parsed = [ok |-> TRUE, neg |-> FALSE, m |-> 194775, s |-> 2]

\* '1,947.75' has been parsed as 1947.75 and rendered as '1947.75'
C13_Witness ==
  /\ pc = "parse" /\ result # <<>>
  /\ arg = American
  /\ result[1].parsed.ok /\ result[1].parsed.m = 194775 /\ result[1].parsed.s = 2
  /\ result[1].norm = <<"1", "9", "4", "7", ".", "7", "5">>

(***************************************************************************)
(* Properties of the post code table                                       *)
(***************************************************************************)
\* the ranges of the table that contain a code
Containing(code) ==
  {i \in DOMAIN DE_POSTCODE_RANGES :
     DE_POSTCODE_RANGES[i][1] <= code /\ code <= DE_POSTCODE_RANGES[i][2]}

\* C14: post code to subdivision: for a 5-digit German postal code, the subdivision is
\* the state code of the single distinct state among all inclusive ranges of the table
\* that contain the code ('10115' gives 'DE-BE'); when the containing ranges name two or
\* more distinct states, or none, no subdivision is returned and the subdivision field
\* stays unset.
C14_SubdivisionOfPostcode ==
  pc = "post" /\ result # <<>> =>
    LET ranges == Containing(arg.n)
        subdivision == invoice.header["BT-54"]
    IN /\ \A i \in ranges :
            (\A j \in ranges : DE_POSTCODE_RANGES[j][3] = DE_POSTCODE_RANGES[i][3])
              => result[1] = DE_STATE_CODES(DE_POSTCODE_RANGES[i][3])
       /\ (\E i, j \in ranges : DE_POSTCODE_RANGES[i][3] # DE_POSTCODE_RANGES[j][3])
            => result[1] = ""
       /\ ranges = {} => result[1] = ""
       /\ arg.n = 10115 => result[1] = "DE-BE"
       /\ IF result[1] = ""
            THEN subdivision.value = None /\ subdivision.status = "missing"
            ELSE subdivision.value = Word(result[1]) /\ subdivision.status = "derived"

\* '10115' lies in the one range of Berlin: the lookup gives DE-BE and the derive call
\* has filled the buyer's subdivision with it
C14_Witness ==
  /\ pc = "post" /\ result = <<"DE-BE">>
  /\ arg = Plz(10115)
  /\ Cardinality(Containing(arg.n)) = 1
  /\ invoice.header["BT-54"].value = Word("DE-BE")


(***************************************************************************)
(* Properties of the instant-payment rules                                 *)
(***************************************************************************)
\* the call returned a patch of this rule that sets the total to the amount, two decimals
Sets(bt, rule_id, amount) ==
  \E i \in DOMAIN produced :
    /\ produced[i].scope = "totals" /\ produced[i].bt = bt
    /\ produced[i].rule_id = rule_id
    /\ produced[i].new_value = Dec2(amount) /\ produced[i].status = "derived"

\* the call returned a patch of this rule
Fires(rule_id) == \E i \in DOMAIN produced : produced[i].rule_id = rule_id

\* C15: Skonto derivation: when the payment-means field (BT-81) contains an instant-payment
\* token and the payment-terms text (BT-20) contains '<p>% Skonto' and a parenthesized
\* amount '(<a> EUR)', phase2_derive sets the allowance percentage (BT-94) to p and the
\* allowance amount (BT-92) to a, each with two decimals and only if that field is empty,
\* and when it sets the amount it also sets the allowance sum (BT-107) to a if BT-107 is
\* empty ('Vorkasse' with '2% Skonto (10 EUR)' gives 2.00 and 10.00).
C15_SkontoFillsEmpty ==
  (/\ LastCalled = "derive"
   /\ HasInstantToken(snap.header["BT-81"].value)
   /\ SkontoPercent(snap.header["BT-20"].value).ok
   /\ SkontoAmount(snap.header["BT-20"].value).ok)
  => LET p == SkontoPercent(snap.header["BT-20"].value).n
         a == SkontoAmount(snap.header["BT-20"].value).n
     IN /\ IsEmpty(snap.totals["BT-94"].value) <=> Fires("R-PAY-SKONTO-007")
        /\ IsEmpty(snap.totals["BT-92"].value) <=> Fires("R-PAY-SKONTO-008")
        /\ Fires("R-PAY-SKONTO-007") => Sets("BT-94", "R-PAY-SKONTO-007", p)
        /\ Fires("R-PAY-SKONTO-008") => Sets("BT-92", "R-PAY-SKONTO-008", a)
        /\ (IsEmpty(snap.totals["BT-92"].value) /\ IsEmpty(snap.totals["BT-107"].value))
             <=> Fires("R-TOT-ALLOW-001")
        /\ Fires("R-TOT-ALLOW-001") => Sets("BT-107", "R-TOT-ALLOW-001", a)


\* C16: Skonto derivation is attempted when either the payment-means field or the
\* payment-terms text contains an instant-payment token: with an empty payment-means field
\* (BT-81) and a payment-terms text (BT-20) that contains an instant-payment token together
\* with '<p>% Skonto', phase2_derive still sets the empty allowance percentage (BT-94) to p.
C16_SkontoFromTerms ==
  (/\ LastCalled = "derive"
   /\ IsEmpty(snap.header["BT-81"].value)
   /\ HasInstantToken(snap.header["BT-20"].value)
   /\ SkontoPercent(snap.header["BT-20"].value).ok
   /\ IsEmpty(snap.totals["BT-94"].value))
  => Sets("BT-94", "R-PAY-SKONTO-007", SkontoPercent(snap.header["BT-20"].value).n)


(***************************************************************************)
(* Properties of a run                                                     *)
(***************************************************************************)
\* C17: phase execution is deterministic: two runs of the phase sequence on equal invoices
\* return equal patch lists in equal order and end in equal invoices and patch logs,
\* whatever the wall-clock date of the run and whatever the iteration order of the internal
\* sets of field codes: every list a phase call can return for the invoice it was called
\* on equals the list this call returned.
C17_Deterministic ==
  /\ LastCalled = "normalize" => \A ps \in phase1_results(snap) : ps = produced
  /\ LastCalled = "resolve" => \A today \in Days : phase4_resolve(snap, today) = produced


\* the date of the first rule, in the order (a) to (d), that yields one for the invoice
\* (a due-date field that is one YYYY-MM-DD date is its own latest date); the stored due
\* date when none does
DueByPriority(inv) ==
  LET h == inv.header
      field == IF HasSet(h, "BT-9") THEN h["BT-9"].value ELSE EmptyStr
      terms == IF HasSet(h, "BT-20") THEN h["BT-20"].value ELSE EmptyStr
      issue == IF HasSet(h, "BT-2") THEN h["BT-2"].value ELSE None
      from_field == add_days(issue, extract_days_from_text(field))
      from_terms == add_days(issue, extract_days_from_text(terms))
  IN IF field.k = "iso" THEN field
     ELSE IF extract_dates_from_text(field) # {} THEN Iso(Max(extract_dates_from_text(field)))
     ELSE IF extract_days_from_text(field) # 0 /\ Truthy(from_field) THEN from_field
     ELSE IF extract_dates_from_text(terms) # {} THEN Iso(Max(extract_dates_from_text(terms)))
     ELSE IF extract_days_from_text(terms) # 0 /\ Truthy(from_terms) THEN from_terms
     ELSE IF instant_payment(inv) /\ Truthy(issue) THEN issue
     ELSE h["BT-9"].value

\* C18: due-date resolution follows the priority order (a) latest date embedded in the
\* due-date field, (b) issue date plus the day count in the due-date field, (c) the same
\* extraction from the payment-terms text, (d) issue date when instant payment is detected:
\* after the patches of one resolve call are applied, the due date (BT-9) holds the result
\* of the first rule in that order that yields a date; in particular the instant-payment
\* default (d) does not replace a date obtained from the payment terms by (c).
C18_DueDatePriority ==
  LastCalled = "resolve" /\ pending = <<>> /\ pc # "error"
    => invoice.header["BT-9"].value = DueByPriority(snap)


\* the rules of phase4_resolve that settle an instant payment
PaidRules == {"R-HDR-PAID-002", "R-HDR-PAID-003", "R-HDR-PAID-004"}

\* C19: Skonto-driven settlement in resolve never overwrites an OCR- or user-sourced amount:
\* phase4_resolve returns a patch for the paid amount (BT-113) or the amount due (BT-115)
\* from the instant-payment rules only when that field is empty or carries status derived
\* or wrong_math; a non-empty field with status ok or corrected gets no such patch.
C19_SettlementKeepsSourced ==
  LastCalled = "resolve" =>
    \A i \in DOMAIN produced :
      produced[i].rule_id \in PaidRules =>
        /\ produced[i].scope = "totals" /\ produced[i].bt \in {"BT-113", "BT-115"}
        /\ \/ IsEmpty(snap.totals[produced[i].bt].value)
           \/ snap.totals[produced[i].bt].status \in {"derived", "wrong_math"}


\* the number a record held when the document was loaded
RawNum(record) == IF IsEmpty(record.raw_value) THEN Nothing ELSE parse_decimal(record.raw_value)

\* the amount without the VAT of the line's rate, two decimals
NetOf(amount, rate) == RoundDiv(amount * 10000, 10000 + rate)

\* the document was loaded with no allowances and no charges, a net total, and line
\* amounts that exceed it by over 0.1% and are its gross: without VAT they sum to it
LoadedGross(inv) ==
  /\ inv.lines # <<>>
  /\ \A bt \in {"BT-92", "BT-99", "BT-107", "BT-108"} : IsEmpty(inv.totals[bt].raw_value)
  /\ \A i \in DOMAIN inv.raw : ~IsChargeLine(inv.raw[i])
  /\ RawNum(inv.totals["BT-109"]).ok
  /\ \A i \in DOMAIN inv.lines :
       /\ IsEmpty(inv.lines[i].bt["BT-147"].raw_value)
       /\ RawNum(inv.lines[i].bt["BT-131"]).ok
       /\ RawNum(inv.lines[i].bt["BT-146"]).ok
       /\ RawNum(inv.lines[i].bt["BT-152"]).ok /\ RawNum(inv.lines[i].bt["BT-152"]).n > 0
  /\ SeqSum([i \in DOMAIN inv.lines |-> RawNum(inv.lines[i].bt["BT-131"]).n]) * 1000
       > RawNum(inv.totals["BT-109"]).n * 1001
  /\ SeqSum([i \in DOMAIN inv.lines |->
               NetOf(RawNum(inv.lines[i].bt["BT-131"]).n, RawNum(inv.lines[i].bt["BT-152"]).n)])
       = RawNum(inv.totals["BT-109"]).n

\* C20: net-versus-gross resolution takes effect in a run: for an invoice with no document
\* or line allowances and no charges, whose stored net total (BT-109) is N and whose line
\* amounts (BT-131) sum to more than N by over 0.1% because they are gross of VAT, the
\* orchestrated sequence ends with every such line's net amount and unit price divided by
\* (1 + rate/100), the original unit price kept in the gross-price field (BT-148), and the
\* net total still N.
C20_GrossLinesResolved ==
  pc = "done" /\ LoadedGross(invoice) =>
    /\ parse_decimal(invoice.totals["BT-109"].value) = RawNum(invoice.totals["BT-109"])
    /\ \A i \in DOMAIN invoice.lines :
         LET bts == invoice.lines[i].bt
             rate == RawNum(bts["BT-152"]).n
         IN /\ parse_decimal(bts["BT-131"].value) = Some(NetOf(RawNum(bts["BT-131"]).n, rate))
            /\ parse_decimal(bts["BT-146"].value) = Some(NetOf(RawNum(bts["BT-146"]).n, rate))
            /\ parse_decimal(bts["BT-148"].value) = RawNum(bts["BT-146"])

(***************************************************************************)
(* Properties of the enrichment step                                       *)
(***************************************************************************)
\* C21: optional enrichment: when enrichment is enabled but credentials are missing, the
\* enrichment step contributes zero patches and raises no error, so the pipeline goes on
\* to the rule engine with an unchanged invoice and an empty patch log: the step never
\* ends the run, and the invoice it leaves is the loaded one.
C21_MissingCredentialsNoError ==
  arg.use_gpt /\ ~arg.api_key =>
    /\ ~(pc = "error" /\ trace = <<>>)
    /\ trace = <<>> => invoice = snap /\ invoice.patches = <<>>

(***************************************************************************)
(* Properties of the totals a run derives                                  *)
(***************************************************************************)
\* the document was loaded with a net total and nothing that changes it: no allowances
\* (none in the totals, the lines or the payment terms), no charges, no totals in the text,
\* line amounts that sum to it; with VAT total and gross total empty and every line
\* carrying the same VAT rate
LoadedNetAndRate(inv, rate) ==
  /\ inv.lines # <<>>
  /\ RawNum(inv.totals["BT-109"]).ok
  /\ \A bt \in {"BT-92", "BT-99", "BT-107", "BT-108", "BT-110", "BT-112"} :
       IsEmpty(inv.totals[bt].raw_value)
  /\ \A i \in DOMAIN inv.raw : ~IsChargeLine(inv.raw[i])
  /\ ~TextGross(inv.raw).ok /\ ~TextAfterSkonto(inv.raw).ok
  /\ ~SkontoAmount(inv.header["BT-20"].raw_value).ok
  /\ \A i \in DOMAIN inv.lines :
       /\ IsEmpty(inv.lines[i].bt["BT-147"].raw_value)
       /\ RawNum(inv.lines[i].bt["BT-131"]).ok
       /\ RawNum(inv.lines[i].bt["BT-152"]) = Some(rate)
  /\ SeqSum([i \in DOMAIN inv.lines |-> RawNum(inv.lines[i].bt["BT-131"]).n])
       = RawNum(inv.totals["BT-109"]).n

NetShare(line) ==
  IF ~LineNum(line, "BT-131").ok THEN 0
  ELSE IF ~LineNum(line, "BT-138").ok /\ LineNum(line, "BT-147").ok
    THEN LineNum(line, "BT-131").n - LineNum(line, "BT-147").n
  ELSE LineNum(line, "BT-131").n

\* C23: net-sum derivation: when the net-sum total (BT-106) is empty and at least one line
\* has a parseable net amount, phase2_derive sets BT-106 to the two-decimal sum over those
\* lines of the line net amount, minus the line's allowance amount (BT-147) for each line
\* whose discount percentage is unknown and whose allowance is known; line amounts 100.00
\* and 50.00 without allowances give 150.00; a non-empty BT-106 is not patched.
C23_NetSumDerived ==
  LastCalled = "derive" =>
    LET priced == {i \in DOMAIN snap.lines : LineNum(snap.lines[i], "BT-131").ok}
        total == SeqSum([i \in DOMAIN snap.lines |-> NetShare(snap.lines[i])])
    IN /\ (IsEmpty(snap.totals["BT-106"].value) /\ priced # {})
            => Sets("BT-106", "R-TOT-SUMS-001", total)
       /\ ~IsEmpty(snap.totals["BT-106"].value)
            => \A i \in DOMAIN produced : produced[i].bt # "BT-106"
       /\ priced = {} => ~Fires("R-TOT-SUMS-001")

\* C24: taxable base: the derivation phase fills the taxable base total (BT-116) with the
\* net total only when at most one distinct VAT category code appears across all lines;
\* when, after the patches of a derive call are applied, the lines carry two or more
\* distinct category codes (including codes derived from the VAT rates in that same call),
\* that call has not filled BT-116.
C24_TaxableBaseSingleCategory ==
  (/\ LastCalled = "derive" /\ pending = <<>>
   /\ \E i, j \in DOMAIN invoice.lines :
        /\ ~IsEmpty(invoice.lines[i].bt["BT-151"].value)
        /\ ~IsEmpty(invoice.lines[j].bt["BT-151"].value)
        /\ invoice.lines[i].bt["BT-151"].value # invoice.lines[j].bt["BT-151"].value)
  => \A k \in DOMAIN produced : produced[k].bt # "BT-116"

\* the number a total holds, unknown when the field is empty or its text does not parse
Stored(inv, bt) ==
  IF IsEmpty(inv.totals[bt].value) THEN Nothing ELSE parse_decimal(inv.totals[bt].value)

\* an allowance or charge sum that is not stored counts as zero
StoredOrZero(inv, bt) == IF Stored(inv, bt).ok THEN Stored(inv, bt).n ELSE 0

\* C25: after the orchestrated sequence has finished, the validated relations hold on the
\* stored totals: whenever net total (BT-109), VAT total (BT-110) and gross total (BT-112)
\* are all present, |BT-112 - (BT-109 + BT-110)| <= 0.02, and whenever BT-106 and BT-109
\* are present, |BT-109 - (BT-106 - BT-107 + BT-108)| <= 0.02; equivalently one more
\* validation call returns no patch. In particular a total that an earlier validation step
\* corrected is not compared against a value that the same step replaces.
C25_RelationsHoldAtEnd ==
  pc = "done" =>
    /\ (Stored(invoice, "BT-109").ok /\ Stored(invoice, "BT-110").ok /\ Stored(invoice, "BT-112").ok)
         => Abs(Stored(invoice, "BT-112").n
                  - (Stored(invoice, "BT-109").n + Stored(invoice, "BT-110").n)) <= TOLERANCE
    /\ (Stored(invoice, "BT-106").ok /\ Stored(invoice, "BT-109").ok)
         => Abs(Stored(invoice, "BT-109").n
                  - (Stored(invoice, "BT-106").n - StoredOrZero(invoice, "BT-107")
                       + StoredOrZero(invoice, "BT-108"))) <= TOLERANCE
    /\ ~phase3_raises(invoice) => phase3_validate(invoice) = <<>>

\* C26: derivation and validation agree on the net-sum total: a BT-106 value that
\* phase2_derive has just filled from the lines (with line allowances subtracted where the
\* discount percentage is unknown) is accepted by the following phase3_validate, which
\* returns no BT-106 patch for it when the lines have not changed in between.
C26_DerivedNetSumAccepted ==
  (/\ LastCalled = "validate" /\ pc # "error"
   /\ Len(trace) >= 2 /\ trace[Len(trace) - 1] = "derive"
   /\ snap.totals["BT-106"].status = "derived"
   /\ snap.totals["BT-106"].rule_id = "R-TOT-SUMS-001"
   /\ snap.totals["BT-106"].value = Dec2(SeqSum([i \in DOMAIN snap.lines |-> NetShare(snap.lines[i])])))
  => \A k \in DOMAIN produced : produced[k].bt # "BT-106"

\* the record a patch names: its scope, code and line
Target(patch) == <<patch.scope, patch.bt, patch.line_id>>

\* C27: one derive call returns at most one patch per target field: in particular, with
\* net total and gross total known, VAT total empty and all lines sharing one VAT rate,
\* phase2_derive returns a single BT-110 patch, so the VAT total it fills satisfies
\* gross = net + VAT.
C27_OnePatchPerField ==
  LastCalled = "derive" =>
    /\ \A i, j \in DOMAIN produced : Target(produced[i]) = Target(produced[j]) => i = j
    /\ (pending = <<>> /\ \E i \in DOMAIN produced : produced[i].bt = "BT-110"
          /\ Stored(snap, "BT-109").ok /\ Stored(snap, "BT-112").ok)
         => Stored(invoice, "BT-112").n
              = Stored(invoice, "BT-109").n + Stored(invoice, "BT-110").n

\* C28: the phase functions are total: for every invoice built from the registry, whatever
\* text its fields hold (including non-empty amount text that fails numeric parsing in the
\* amount due BT-115 or the paid amount BT-113), each of the four phase functions returns a
\* patch list and does not raise.
C28_PhasesTotal == LastCalled \in {"normalize", "derive", "validate", "resolve"} => pc # "error"

(***************************************************************************)
(* Properties of run_all_phases                                            *)
(***************************************************************************)
\* the value and the status of every record of an invoice
FieldsOf(inv) ==
  [header |-> [bt \in DOMAIN inv.header |-> <<inv.header[bt].value, inv.header[bt].status>>],
   totals |-> [bt \in DOMAIN inv.totals |-> <<inv.totals[bt].value, inv.totals[bt].status>>],
   lines |-> [i \in DOMAIN inv.lines |->
                [bt \in DOMAIN inv.lines[i].bt |->
                   <<inv.lines[i].bt[bt].value, inv.lines[i].bt[bt].status>>]]]

\* C29: run_all_phases is equivalent to the orchestrator: for every invoice, applying in
\* order the patches returned by run_all_phases yields the same final field values and
\* statuses as the pipeline's sequence normalize, derive, validate, resolve, derive,
\* resolve, validate with patches applied after each phase.
C29_RunAllPhasesEquivalent ==
  pc = "done" /\ result # <<>> =>
    /\ ~result[1].raised
    /\ FieldsOf(result[1].invoice) = FieldsOf(invoice)

(***************************************************************************)
(* Properties of the loaded invoice                                        *)
(***************************************************************************)
\* C30: scope partition of the registry: in an invoice built by load_azure every registry
\* code has its record in exactly one scope, the header mapping, the totals mapping or the
\* per-line mappings, according to its registry group; a line-group code is not present in
\* the header mapping, so a header-scope patch naming a line-level code is dropped.
C30_ScopePartition ==
  /\ \A bt \in DOMAIN bt_registry :
       /\ bt \in DOMAIN invoice.header <=> bt_registry[bt] = "header"
       /\ bt \in DOMAIN invoice.totals <=> bt_registry[bt] \in {"totals", "allowances", "charges"}
       /\ \A i \in DOMAIN invoice.lines :
            bt \in DOMAIN invoice.lines[i].bt <=> bt_registry[bt] = "line"
  /\ (/\ Called /\ LastPatch.scope = "header"
      /\ LastPatch.bt \in DOMAIN bt_registry /\ bt_registry[LastPatch.bt] = "line")
     => /\ invoice.header = prev.header
        /\ invoice.patches = prev.patches

====
